---- MODULE Spec2Model ----
(***************************************************************************)
(* Model of the IR climate codec of localtuya_ir_climate: the protocol     *)
(* facades under climate_protocols/ and their generate_ir_code operation.  *)
(*                                                                         *)
(* Conventions                                                             *)
(*  - a command is a record [hvac_mode, target_temp, fan_mode, swing_mode];*)
(*    strings are the Home Assistant string values the code compares with. *)
(*  - target_temp is kept in HALF DEGREES (48 = 24.0 C, 47 = 23.5 C) so    *)
(*    that Python's int(), round() and float comparisons on the values the *)
(*    entity passes are exact integer computations.                        *)
(*  - a pulse is a pair <<"m", d>> (mark) or <<"s", d>> (space); the kind  *)
(*    is the kind of the timing constant the code appends (X_MARK/X_SPACE, *)
(*    bit_high/bit_low, GAP).  The Python list holds only the durations.   *)
(*  - generate_ir_code returns encode(frames); the state keeps the frames  *)
(*    the call built (out.tx) and Ret is the pulse list the call returned. *)
(***************************************************************************)
EXTENDS Integers, Sequences, FiniteSets, TLC

VARIABLES brand, model, self, last, out, calls, vertRun,
          registry, config, raised, entity, task, loop

\* the facade and the record of its last call
facadeVars == <<brand, model, self, last, out, calls, vertRun>>

\* the integration around it: the registry, the configured brand, the climate
\* entity and its running handlers
hostVars == <<registry, config, raised, entity, task, loop>>

vars == <<brand, model, self, last, out, calls, vertRun,
          registry, config, raised, entity, task, loop>>

(***************************************************************************)
(* Bounds of the model (not program constants).                            *)
(***************************************************************************)
\* how many degrees outside [temperature_min, temperature_max] are tried
TempMargin == 1
\* the call counter saturates here (calls = MaxCalls means "MaxCalls or more")
MaxCalls == 2
\* the counter of consecutive swing=vertical calls saturates here
MaxRun == 2
\* how many service handlers of the entity can be running at once
MaxTasks == 2

(***************************************************************************)
(* Integer helpers: Python's bit operators on non-negative ints.           *)
(***************************************************************************)
RECURSIVE BitAnd(_, _)
BitAnd(a, b) ==
    IF a = 0 \/ b = 0 THEN 0
    ELSE (a % 2) * (b % 2) + 2 * BitAnd(a \div 2, b \div 2)

BitOr(a, b) == a + b - BitAnd(a, b)

BitXor(a, b) == a + b - 2 * BitAnd(a, b)

\* x & ~m
BitClear(x, m) == x - BitAnd(x, m)

\* (~x) & 0xFF
Inv8(x) == 255 - (x % 256)

Shl(x, n) == x * (2 ^ n)

Shr(x, n) == x \div (2 ^ n)

\* bool(x & (1 << i))
BitSet(x, i) == (x \div (2 ^ i)) % 2 = 1

Min2(a, b) == IF a < b THEN a ELSE b

Max2(a, b) == IF a > b THEN a ELSE b

\* max(lo, min(hi, t)) with lo, hi in whole degrees and t in half degrees
Clamp(t, lo, hi) == Max2(2 * lo, Min2(2 * hi, t))

\* int(t) for a non-negative temperature in half degrees
PyInt(t) == t \div 2

\* int(round(t)): Python 3 rounds halves to the even integer
PyRound(t) ==
    IF t % 2 = 0 THEN t \div 2
    ELSE IF (t \div 2) % 2 = 0 THEN t \div 2 ELSE t \div 2 + 1

RECURSIVE SumSeq(_)
SumSeq(s) == IF s = <<>> THEN 0 ELSE s[1] + SumSeq(Tail(s))

RECURSIVE XorSeq(_)
XorSeq(s) == IF s = <<>> THEN 0 ELSE BitXor(s[1], XorSeq(Tail(s)))

\* list[a:b] with 0-based Python indices
Slice(s, a, b) == SubSeq(s, a + 1, Min2(b, Len(s)))

\* s with the 0-based index i set to v
Put(s, i, v) == [s EXCEPT ![i + 1] = v]

\* s[i] with a 0-based index
At(s, i) == s[i + 1]

\* [0] * n
RECURSIVE Zeros(_)
Zeros(n) == IF n = 0 THEN <<>> ELSE Append(Zeros(n - 1), 0)

(***************************************************************************)
(* Pulses.                                                                 *)
(***************************************************************************)
Mark(d) == <<"m", d>>

Space(d) == <<"s", d>>

\* for byte in bytes: for bit in range(8): append(bit_mark);
\*   append(one if byte & (1 << bit) else zero)          (LSB first)
\* and the same loop with range(7, -1, -1)                (MSB first)
BytePulses(bytes, lsbFirst, bitMark, one, zero) ==
    [i \in 1..(16 * Len(bytes)) |->
        LET byte == bytes[((i - 1) \div 16) + 1]
            k    == ((i - 1) % 16) \div 2
            pos  == IF lsbFirst THEN k ELSE 7 - k
        IN  IF i % 2 = 1 THEN Mark(bitMark)
            ELSE Space(IF BitSet(byte, pos) THEN one ELSE zero)]

\* for bit_position in range(nbits - 1, -1, -1): the word, MSB first
WordPulses(value, nbits, bitMark, one, zero) ==
    [i \in 1..(2 * nbits) |->
        LET pos == nbits - 1 - ((i - 1) \div 2)
        IN  IF i % 2 = 1 THEN Mark(bitMark)
            ELSE Space(IF BitSet(value, pos) THEN one ELSE zero)]

(***************************************************************************)
(* Commands.                                                               *)
(***************************************************************************)
HVACModes == {"off", "heat", "cool", "dry", "fan_only", "auto", "heat_cool"}

FanModes == {"auto", "low", "medium", "high", "quiet"}

NoCmd == [hvac_mode |-> "none", target_temp |-> 0, fan_mode |-> "none", swing_mode |-> "none"]

NoOut == [kind |-> "none", tx |-> <<>>]

Cmd(m, t, f, s) == [hvac_mode |-> m, target_temp |-> t, fan_mode |-> f, swing_mode |-> s]


(***************************************************************************)
(* Coolix (coolix.py).                                                     *)
(***************************************************************************)
CoolixProtocol ==
    [TEMP_MIN |-> 17, TEMP_MAX |-> 30,
     COOLIX_OFF |-> 11697120,       \* 0xB27BE0
     COOLIX_SWING |-> 11693024,     \* 0xB26BE0
     COOLIX_COOL |-> 0, COOLIX_DRY_FAN |-> 4, COOLIX_AUTO |-> 8, COOLIX_HEAT |-> 12,
     FAN_MODE_AUTO_DRY |-> 4096,    \* 0x1000
     FAN_AUTO |-> 45056,            \* 0xB000
     FAN_MIN |-> 36864,             \* 0x9000
     FAN_MED |-> 20480,             \* 0x5000
     FAN_MAX |-> 12288,             \* 0x3000
     FAN_TEMP_CODE |-> 224,         \* 0b11100000
     TEMP_MAP |-> <<0, 16, 48, 32, 96, 112, 80, 64, 192, 208, 144, 128, 160, 176>>,
     BASE_STATE |-> 11669248]       \* 0xB20F00

\* the timing parameters local to _encode_coolix_command
CoolixTiming ==
    [HEADER_MARK |-> 4500, HEADER_SPACE |-> 4500, BIT_MARK |-> 560,
     ONE_SPACE |-> 1690, ZERO_SPACE |-> 560]

\* CoolixProtocol.__init__
Coolix_init == [swing_pending |-> FALSE]

\* the 24-bit word of the normal mode/temperature/fan frame (lines 96-139)
Coolix_remote_state(c) ==
    LET P == CoolixProtocol
        mode == c.hvac_mode
        s0 == P.BASE_STATE
        s1 == BitOr(s0,
                CASE mode = "cool" -> P.COOLIX_COOL
                  [] mode = "heat" -> P.COOLIX_HEAT
                  [] mode \in {"auto", "heat_cool"} -> P.COOLIX_AUTO
                  [] mode \in {"dry", "fan_only"} -> P.COOLIX_DRY_FAN
                  [] OTHER -> P.COOLIX_AUTO)
        temp_val == Clamp(c.target_temp, P.TEMP_MIN, P.TEMP_MAX)
        temp_index == PyInt(temp_val) - P.TEMP_MIN
        s2 == IF mode = "fan_only" THEN BitOr(s1, P.FAN_TEMP_CODE)
              ELSE IF temp_index < Len(P.TEMP_MAP)
                   THEN BitOr(s1, P.TEMP_MAP[temp_index + 1])
                   ELSE s1
        s3 == IF mode \in {"auto", "heat_cool", "dry"}
              THEN BitOr(s2, P.FAN_MODE_AUTO_DRY)
              ELSE BitOr(s2,
                     CASE c.fan_mode = "high" -> P.FAN_MAX
                       [] c.fan_mode = "medium" -> P.FAN_MED
                       [] c.fan_mode = "low" -> P.FAN_MIN
                       [] OTHER -> P.FAN_AUTO)
    IN  s3

\* generate_ir_code without line 85: the swing branch does not record that the
\* swing frame has been sent
Coolix_generate_ir_code_forgets(st, c) ==
    IF c.swing_mode = "vertical" /\ ~st.swing_pending
    THEN [self |-> st,
          out |-> [kind |-> "swing", tx |-> <<CoolixProtocol.COOLIX_SWING>>]]
    ELSE IF c.hvac_mode = "off"
    THEN [self |-> [st EXCEPT !.swing_pending = FALSE],
          out |-> [kind |-> "off", tx |-> <<CoolixProtocol.COOLIX_OFF>>]]
    ELSE [self |-> [st EXCEPT !.swing_pending = FALSE],
          out |-> [kind |-> "normal", tx |-> <<Coolix_remote_state(c)>>]]

\* CoolixProtocol.generate_ir_code: the new facade state and the command word
\* handed to _encode_coolix_command
Coolix_generate_ir_code(st, c) ==
    IF c.swing_mode = "vertical" /\ ~st.swing_pending
    THEN [self |-> [st EXCEPT !.swing_pending = TRUE],
          out |-> [kind |-> "swing", tx |-> <<CoolixProtocol.COOLIX_SWING>>]]
    ELSE IF c.hvac_mode = "off"
    THEN [self |-> [st EXCEPT !.swing_pending = FALSE],
          out |-> [kind |-> "off", tx |-> <<CoolixProtocol.COOLIX_OFF>>]]
    ELSE [self |-> [st EXCEPT !.swing_pending = FALSE],
          out |-> [kind |-> "normal", tx |-> <<Coolix_remote_state(c)>>]]

\* CoolixProtocol._encode_coolix_command
Coolix_encode_coolix_command(command) ==
    LET P == CoolixTiming
        bytes_data == <<Shr(command, 16) % 256, Shr(command, 8) % 256, command % 256>>
    IN  <<Mark(P.HEADER_MARK), Space(P.HEADER_SPACE)>>
        \o BytePulses(bytes_data, TRUE, P.BIT_MARK, P.ONE_SPACE, P.ZERO_SPACE)
        \o <<Mark(P.BIT_MARK)>>

(***************************************************************************)
(* Whirlpool (whirlpool.py).  last_transmit_time is a wall-clock stamp no  *)
(* code reads; it is not modelled.                                         *)
(***************************************************************************)
WhirlpoolProtocol ==
    [TEMP_MIN_DG11J1_3A |-> 18, TEMP_MAX_DG11J1_3A |-> 32,
     TEMP_MIN_DG11J1_91 |-> 16, TEMP_MAX_DG11J1_91 |-> 30,
     STATE_LENGTH |-> 21,
     MODE_HEAT |-> 0, MODE_AUTO |-> 1, MODE_COOL |-> 2, MODE_DRY |-> 3, MODE_FAN |-> 4,
     FAN_AUTO |-> 0, FAN_HIGH |-> 1, FAN_MED |-> 2, FAN_LOW |-> 3,
     SWING_MASK |-> 128, POWER_MASK |-> 4,
     FIXED_BYTE0 |-> 131, FIXED_BYTE1 |-> 6, FIXED_BYTE6 |-> 128,
     FIXED_BYTE18_DG11J191 |-> 8,
     HEADER_MARK |-> 9000, HEADER_SPACE |-> 4494, BIT_MARK |-> 572,
     ONE_SPACE |-> 1659, ZERO_SPACE |-> 553, GAP |-> 7960]

WhirlpoolModels == {"dg11j1_3a", "dg11j1_91"}

\* WhirlpoolProtocol.__init__ (the model string decides the temperature range)
Whirlpool_init == [powered_on_assumed |-> FALSE, swing_pending |-> FALSE]

Whirlpool_temperature_min(m) ==
    IF m = "dg11j1_3a" THEN WhirlpoolProtocol.TEMP_MIN_DG11J1_3A
    ELSE WhirlpoolProtocol.TEMP_MIN_DG11J1_91

Whirlpool_temperature_max(m) ==
    IF m = "dg11j1_3a" THEN WhirlpoolProtocol.TEMP_MAX_DG11J1_3A
    ELSE WhirlpoolProtocol.TEMP_MAX_DG11J1_91

\* the assumed power state with line 126 left out
Whirlpool_assume_stale(st, powered_on) == st.powered_on_assumed

\* lines 122-126: the power state the facade assumes after the call
Whirlpool_assume(st, powered_on) ==
    IF powered_on # st.powered_on_assumed THEN powered_on ELSE st.powered_on_assumed

\* WhirlpoolProtocol.generate_ir_code
Whirlpool_generate_ir_code(st, m, c) ==
    LET P == WhirlpoolProtocol
        mode == c.hvac_mode
        r0 == Put(Put(Put(Zeros(P.STATE_LENGTH), 0, P.FIXED_BYTE0), 1, P.FIXED_BYTE1),
                  6, P.FIXED_BYTE6)
        r1 == IF m = "dg11j1_91" THEN Put(r0, 18, P.FIXED_BYTE18_DG11J191) ELSE r0
        powered_on == mode # "off"
        toggle == powered_on # st.powered_on_assumed
        r2 == IF toggle THEN Put(Put(r1, 2, 4), 15, 1) ELSE r1
        r3 == IF ~powered_on THEN r2
              ELSE IF mode \in {"auto", "heat_cool"} THEN Put(Put(r2, 3, P.MODE_AUTO), 15, 23)
              ELSE IF mode = "heat" THEN Put(Put(r2, 3, P.MODE_HEAT), 15, 6)
              ELSE IF mode = "cool" THEN Put(Put(r2, 3, P.MODE_COOL), 15, 6)
              ELSE IF mode = "dry" THEN Put(Put(r2, 3, P.MODE_DRY), 15, 6)
              ELSE IF mode = "fan_only" THEN Put(Put(r2, 3, P.MODE_FAN), 15, 6)
              ELSE r2
        temp_val == Clamp(c.target_temp, Whirlpool_temperature_min(m),
                          Whirlpool_temperature_max(m))
        temp_offset == PyInt(temp_val) - Whirlpool_temperature_min(m)
        r4 == IF mode # "off" THEN Put(r3, 3, BitOr(At(r3, 3), Shl(temp_offset, 4))) ELSE r3
        fan_value == CASE c.fan_mode = "high" -> P.FAN_HIGH
                       [] c.fan_mode = "medium" -> P.FAN_MED
                       [] c.fan_mode = "low" -> P.FAN_LOW
                       [] OTHER -> P.FAN_AUTO
        r5 == IF mode # "off" THEN Put(r4, 2, BitOr(At(r4, 2), fan_value)) ELSE r4
        r6 == IF c.swing_mode = "vertical" /\ st.swing_pending
              THEN Put(Put(r5, 2, BitOr(At(r5, 2), P.SWING_MASK)), 8, BitOr(At(r5, 8), 64))
              ELSE r5
        r7 == Put(r6, 13, XorSeq(Slice(r6, 2, 13)))
        r8 == Put(r7, 20, XorSeq(Slice(r7, 14, 20)))
    IN  [self |-> [powered_on_assumed |-> Whirlpool_assume(st, powered_on),
                   swing_pending |-> FALSE],
         out |-> [kind |-> "normal", tx |-> <<r8>>]]

\* WhirlpoolProtocol._encode_to_pulses
Whirlpool_encode_to_pulses(remote_state) ==
    LET P == WhirlpoolProtocol
        Bits(bs) == BytePulses(bs, TRUE, P.BIT_MARK, P.ONE_SPACE, P.ZERO_SPACE)
        divider == <<Mark(P.BIT_MARK), Space(P.GAP)>>
    IN  <<Mark(P.HEADER_MARK), Space(P.HEADER_SPACE)>>
        \o Bits(Slice(remote_state, 0, 6)) \o divider
        \o Bits(Slice(remote_state, 6, 14)) \o divider
        \o Bits(Slice(remote_state, 14, 21))
        \o <<Mark(P.BIT_MARK)>>

(***************************************************************************)
(* Toshiba (toshiba.py).  A call's frames are a sequence of parts: a data  *)
(* part [bytes, repeat] is sent by _encode_to_pulses(bytes, n, repeat), a  *)
(* gap part is the pair BIT_MARK, PACKET_SPACE.                            *)
(***************************************************************************)
ToshibaProtocol ==
    [TEMP_MIN_GENERIC |-> 17, TEMP_MAX_GENERIC |-> 30,
     TEMP_MIN_RAC_PT1411HWRU |-> 16, TEMP_MAX_RAC_PT1411HWRU |-> 30,
     TEMP_MIN_RAS_2819T |-> 18, TEMP_MAX_RAS_2819T |-> 30,
     HEADER_MARK |-> 4380, HEADER_SPACE |-> 4370, GAP_SPACE |-> 5480,
     PACKET_SPACE |-> 10500, BIT_MARK |-> 540, ZERO_SPACE |-> 540, ONE_SPACE |-> 1620,
     COMMAND_DEFAULT |-> 1,
     MODE_AUTO |-> 0, MODE_COOL |-> 1, MODE_DRY |-> 2, MODE_HEAT |-> 3,
     MODE_FAN_ONLY |-> 4, MODE_OFF |-> 7,
     FAN_SPEED_AUTO |-> 0, FAN_SPEED_QUIET |-> 32, FAN_SPEED_1 |-> 64,
     FAN_SPEED_3 |-> 128, FAN_SPEED_5 |-> 192,
     RAC_PT1411HWRU_MESSAGE_HEADER0 |-> 178,      \* 0xB2
     RAC_PT1411HWRU_MESSAGE_HEADER1 |-> 213,      \* 0xD5
     RAC_PT1411HWRU_FLAG_FAH |-> 1, RAC_PT1411HWRU_FLAG_FRAC |-> 32,
     RAC_PT1411HWRU_FLAG_NEG |-> 16, RAC_PT1411HWRU_FLAG_MASK |-> 15,
     RAC_PT1411HWRU_SWING_VERTICAL |-> <<185, 70, 245, 10, 4, 251>>,
     RAC_PT1411HWRU_SWING_OFF |-> <<185, 70, 245, 10, 5, 250>>,
     RAC_PT1411HWRU_FAN_OFF |-> 123,              \* 0x7B
     RAC_PT1411HWRU_FAN_AUTO |-> <<191, 102>>,    \* (0xBF, 0x66)
     RAC_PT1411HWRU_FAN_LOW |-> <<159, 40>>,      \* (0x9F, 0x28)
     RAC_PT1411HWRU_FAN_MED |-> <<95, 60>>,       \* (0x5F, 0x3C)
     RAC_PT1411HWRU_FAN_HIGH |-> <<63, 100>>,     \* (0x3F, 0x64)
     RAC_PT1411HWRU_NO_FAN |-> <<31, 101>>,       \* (0x1F, 0x65)
     RAC_PT1411HWRU_MODE_AUTO |-> 8, RAC_PT1411HWRU_MODE_COOL |-> 0,
     RAC_PT1411HWRU_MODE_DRY |-> 4, RAC_PT1411HWRU_MODE_FAN |-> 4,
     RAC_PT1411HWRU_MODE_HEAT |-> 12, RAC_PT1411HWRU_MODE_OFF |-> 0,
     RAC_PT1411HWRU_TEMPERATURE_FAN_ONLY |-> 14,
     RAC_PT1411HWRU_TEMPERATURE_C |->
        <<16, 0, 1, 3, 2, 6, 7, 5, 4, 12, 13, 9, 8, 10, 11>>,
     RAC_PT1411HWRU_TEMPERATURE_F |->
        <<16, 48, 0, 32, 1, 33, 3, 35, 2, 34, 6, 38, 7, 5, 37, 4, 36, 12,
          44, 13, 45, 9, 8, 40, 10, 42, 11>>,
     RAS_2819T_HEADER1 |-> 49725,                 \* 0xC23D
     RAS_2819T_HEADER2 |-> 213,                   \* 0xD5
     RAS_2819T_FAN_AUTO |-> 48960,                \* 0xBF40
     RAS_2819T_FAN_QUIET |-> 65280,               \* 0xFF00
     RAS_2819T_FAN_LOW |-> 40800,                 \* 0x9F60
     RAS_2819T_FAN_MEDIUM |-> 24480,              \* 0x5FA0
     RAS_2819T_FAN_HIGH |-> 16320,                \* 0x3FC0
     RAS_2819T_FAN2_AUTO |-> 102, RAS_2819T_FAN2_QUIET |-> 1, RAS_2819T_FAN2_LOW |-> 40,
     RAS_2819T_FAN2_MEDIUM |-> 60, RAS_2819T_FAN2_HIGH |-> 80,
     RAS_2819T_SWING_TOGGLE |-> <<194, 61, 107, 148, 224, 31>>,       \* 0xC23D6B94E01F
     RAS_2819T_POWER_OFF_COMMAND |-> <<194, 61, 123, 132, 224, 31>>,  \* 0xC23D7B84E01F
     RAS_2819T_TEMP_CODES |->
        <<16, 48, 32, 96, 112, 80, 64, 192, 208, 144, 128, 160, 176>>]

ToshibaModels == {"generic", "rac_pt1411hwru_c", "rac_pt1411hwru_f", "ras_2819t"}

Toshiba_temperature_min(m) ==
    CASE m \in {"rac_pt1411hwru_c", "rac_pt1411hwru_f"} -> ToshibaProtocol.TEMP_MIN_RAC_PT1411HWRU
      [] m = "ras_2819t" -> ToshibaProtocol.TEMP_MIN_RAS_2819T
      [] OTHER -> ToshibaProtocol.TEMP_MIN_GENERIC

Toshiba_temperature_max(m) ==
    CASE m \in {"rac_pt1411hwru_c", "rac_pt1411hwru_f"} -> ToshibaProtocol.TEMP_MAX_RAC_PT1411HWRU
      [] m = "ras_2819t" -> ToshibaProtocol.TEMP_MAX_RAS_2819T
      [] OTHER -> ToshibaProtocol.TEMP_MAX_GENERIC

\* ToshibaProtocol.__init__: the state tracking (last_target_temperature = 24.0)
Toshiba_init ==
    [last_swing_mode |-> "off", last_hvac_mode |-> "off", last_fan_mode |-> "auto",
     last_target_temperature |-> 48]

DataPart(bytes, repeat) == [part |-> "data", bytes |-> bytes, repeat |-> repeat]

GapPart == [part |-> "gap", bytes |-> <<>>, repeat |-> 0]

\* ToshibaProtocol._generate_generic_code (the swing packet of lines 303-313
\* is the empty list)
Toshiba_generate_generic_code(c) ==
    LET P == ToshibaProtocol
        m0 == <<242, 13, 3, BitXor(BitXor(242, 13), 3), P.COMMAND_DEFAULT>>
        temp_val == PyInt(Clamp(c.target_temp, P.TEMP_MIN_GENERIC, P.TEMP_MAX_GENERIC))
        m5 == Shl(temp_val - P.TEMP_MIN_GENERIC, 4)
        mode_byte == CASE c.hvac_mode = "off" -> P.MODE_OFF
                       [] c.hvac_mode = "heat" -> P.MODE_HEAT
                       [] c.hvac_mode = "cool" -> P.MODE_COOL
                       [] c.hvac_mode = "dry" -> P.MODE_DRY
                       [] c.hvac_mode = "fan_only" -> P.MODE_FAN_ONLY
                       [] OTHER -> P.MODE_AUTO
        fan_byte == CASE c.fan_mode = "quiet" -> P.FAN_SPEED_QUIET
                      [] c.fan_mode = "low" -> P.FAN_SPEED_1
                      [] c.fan_mode = "medium" -> P.FAN_SPEED_3
                      [] c.fan_mode = "high" -> P.FAN_SPEED_5
                      [] OTHER -> P.FAN_SPEED_AUTO
        m8 == m0 \o <<m5, BitOr(fan_byte, mode_byte), 0>>
    IN  <<DataPart(m8 \o <<XorSeq(Slice(m8, 4, 8))>>, 1)>>

\* ToshibaProtocol._build_rac_pt1411hwru_main: the 12-byte message
Toshiba_build_rac_pt1411hwru_main(m, c) ==
    LET P == ToshibaProtocol
        mode == c.hvac_mode
        temperature == Clamp(c.target_temp, P.TEMP_MIN_RAC_PT1411HWRU,
                             P.TEMP_MAX_RAC_PT1411HWRU)
        fan == IF mode = "off" THEN <<P.RAC_PT1411HWRU_FAN_OFF, 0>>
               ELSE IF mode \in {"auto", "heat_cool", "dry"} THEN P.RAC_PT1411HWRU_NO_FAN
               ELSE CASE c.fan_mode = "low" -> P.RAC_PT1411HWRU_FAN_LOW
                      [] c.fan_mode = "medium" -> P.RAC_PT1411HWRU_FAN_MED
                      [] c.fan_mode = "high" -> P.RAC_PT1411HWRU_FAN_HIGH
                      [] OTHER -> P.RAC_PT1411HWRU_FAN_AUTO
        isF == m = "rac_pt1411hwru_f"
        \* int(temperature - 16), and int(temperature * 1.8 + 32 - 60) with the
        \* temperature in half degrees: (9 * t + 320 - 600) / 10
        temp_index == IF isF THEN (9 * temperature - 280) \div 10
                      ELSE (temperature - 2 * P.TEMP_MIN_RAC_PT1411HWRU) \div 2
        table == IF isF THEN P.RAC_PT1411HWRU_TEMPERATURE_F
                 ELSE P.RAC_PT1411HWRU_TEMPERATURE_C
        inTable == temp_index < Len(table)
        temp_code == IF inTable THEN table[temp_index + 1] ELSE 16
        m9a == IF isF /\ inTable THEN P.RAC_PT1411HWRU_FLAG_FAH ELSE 0
        m8 == IF BitAnd(temp_code, P.RAC_PT1411HWRU_FLAG_FRAC) # 0
              THEN P.RAC_PT1411HWRU_FLAG_FRAC ELSE 0
        m9 == IF BitAnd(temp_code, P.RAC_PT1411HWRU_FLAG_NEG) # 0
              THEN BitOr(m9a, P.RAC_PT1411HWRU_FLAG_NEG) ELSE m9a
        temp_bits0 == Shl(BitAnd(temp_code, P.RAC_PT1411HWRU_FLAG_MASK), 4)
        mode_bits == CASE mode = "heat" -> P.RAC_PT1411HWRU_MODE_HEAT
                       [] mode = "cool" ->
                            IF Shr(temp_bits0, 4) = P.RAC_PT1411HWRU_TEMPERATURE_FAN_ONLY
                            THEN P.RAC_PT1411HWRU_MODE_OFF
                            ELSE P.RAC_PT1411HWRU_MODE_COOL
                       [] mode = "dry" -> P.RAC_PT1411HWRU_MODE_DRY
                       [] mode = "fan_only" -> P.RAC_PT1411HWRU_MODE_FAN
                       [] OTHER -> P.RAC_PT1411HWRU_MODE_AUTO
        temp_bits == IF mode = "fan_only"
                     THEN Shl(P.RAC_PT1411HWRU_TEMPERATURE_FAN_ONLY, 4) ELSE temp_bits0
        m4 == BitOr(temp_bits, mode_bits)
        first == <<P.RAC_PT1411HWRU_MESSAGE_HEADER0, Inv8(P.RAC_PT1411HWRU_MESSAGE_HEADER0),
                   fan[1], Inv8(fan[1]), m4, Inv8(m4)>>
        second == <<P.RAC_PT1411HWRU_MESSAGE_HEADER1, fan[2], m8, m9, 0>>
    IN  IF mode = "off" THEN first \o <<0, fan[2], m8, m9, 0, 0>>
        ELSE first \o second \o <<SumSeq(second) % 256>>

\* ToshibaProtocol._generate_rac_pt1411hwru_code with
\* _generate_rac_pt1411hwru_swing
Toshiba_generate_rac_pt1411hwru_code(m, c) ==
    LET P == ToshibaProtocol
        main_message == Toshiba_build_rac_pt1411hwru_main(m, c)
        swing == IF c.swing_mode = "vertical" THEN P.RAC_PT1411HWRU_SWING_VERTICAL
                 ELSE P.RAC_PT1411HWRU_SWING_OFF
    IN  <<DataPart(Slice(main_message, 0, 6), 1)>>
        \o (IF c.hvac_mode # "off" THEN <<DataPart(Slice(main_message, 6, 12), 0)>>
            ELSE <<>>)
        \o <<GapPart, DataPart(swing, 1), GapPart>>

\* ToshibaProtocol._get_ras_2819t_temp_code
Toshiba_get_ras_2819t_temp_code(temperature) ==
    LET temp_index == PyInt(temperature) - ToshibaProtocol.TEMP_MIN_RAS_2819T
    IN  IF 0 <= temp_index /\ temp_index < Len(ToshibaProtocol.RAS_2819T_TEMP_CODES)
        THEN ToshibaProtocol.RAS_2819T_TEMP_CODES[temp_index + 1]
        ELSE 64

\* ToshibaProtocol._get_ras_2819t_fan_code
Toshiba_get_ras_2819t_fan_code(fan_mode) ==
    CASE fan_mode = "quiet" -> ToshibaProtocol.RAS_2819T_FAN_QUIET
      [] fan_mode = "low" -> ToshibaProtocol.RAS_2819T_FAN_LOW
      [] fan_mode = "medium" -> ToshibaProtocol.RAS_2819T_FAN_MEDIUM
      [] fan_mode = "high" -> ToshibaProtocol.RAS_2819T_FAN_HIGH
      [] OTHER -> ToshibaProtocol.RAS_2819T_FAN_AUTO

\* ToshibaProtocol._build_ras_2819t_packet1
Toshiba_build_ras_2819t_packet1(c) ==
    LET P == ToshibaProtocol
        mode == c.hvac_mode
        temp_code == Toshiba_get_ras_2819t_temp_code(c.target_temp)
        fan_code == IF mode = "dry" THEN P.RAS_2819T_FAN_AUTO
                    ELSE Toshiba_get_ras_2819t_fan_code(c.fan_mode)
        m4 == CASE mode = "cool" -> temp_code
                [] mode = "heat" -> BitOr(temp_code, 12)
                [] mode \in {"auto", "heat_cool"} -> BitOr(temp_code, 8)
                [] mode = "dry" -> BitOr(temp_code, 36)
                [] mode = "fan_only" -> 228
                [] OTHER -> temp_code
    IN  IF mode = "off" THEN P.RAS_2819T_POWER_OFF_COMMAND
        ELSE <<Shr(P.RAS_2819T_HEADER1, 8) % 256, P.RAS_2819T_HEADER1 % 256,
               Shr(fan_code, 8) % 256, fan_code % 256, m4, Inv8(m4)>>

\* ToshibaProtocol._build_ras_2819t_packet2 with
\* _get_ras_2819t_second_packet_codes
Toshiba_build_ras_2819t_packet2(c) ==
    LET P == ToshibaProtocol
        fan2 == CASE c.fan_mode = "quiet" -> <<P.RAS_2819T_FAN2_QUIET, 0, 2, 216>>
                  [] c.fan_mode = "low" -> <<P.RAS_2819T_FAN2_LOW, 0, 2, 255>>
                  [] c.fan_mode = "medium" -> <<P.RAS_2819T_FAN2_MEDIUM, 0, 2, 19>>
                  [] c.fan_mode = "high" -> <<P.RAS_2819T_FAN2_HIGH, 0, 2, 39>>
                  [] OTHER -> <<P.RAS_2819T_FAN2_AUTO, 0, 2, 61>>
        suffix == IF c.hvac_mode = "heat" THEN <<0, 0, 59>> ELSE Slice(fan2, 1, 4)
    IN  IF c.hvac_mode \in {"auto", "heat_cool", "dry"}
        THEN <<P.RAS_2819T_HEADER2, 101, 0, 0, 0, 58>>
        ELSE <<P.RAS_2819T_HEADER2, fan2[1], 0>> \o suffix

\* ToshibaProtocol._generate_ras_2819t_code
Toshiba_generate_ras_2819t_code(c) ==
    <<DataPart(Toshiba_build_ras_2819t_packet1(c), 1)>>
    \o (IF c.hvac_mode # "off" THEN <<DataPart(Toshiba_build_ras_2819t_packet2(c), 0)>>
        ELSE <<>>)

\* lines 214-221: only the swing mode differs from the tracked state
Toshiba_only_swing_changed(st, c) ==
    /\ c.swing_mode # st.last_swing_mode
    /\ c.hvac_mode = st.last_hvac_mode
    /\ c.fan_mode = st.last_fan_mode
    /\ c.target_temp = st.last_target_temperature

\* ToshibaProtocol.generate_ir_code
Toshiba_generate_ir_code(st, m, c) ==
    IF m = "ras_2819t" /\ Toshiba_only_swing_changed(st, c)
    THEN [self |-> st,
          out |-> [kind |-> "swing",
                   tx |-> <<DataPart(ToshibaProtocol.RAS_2819T_SWING_TOGGLE, 1)>>]]
    ELSE [self |-> [last_swing_mode |-> c.swing_mode, last_hvac_mode |-> c.hvac_mode,
                    last_fan_mode |-> c.fan_mode,
                    last_target_temperature |-> c.target_temp],
          out |-> [kind |-> "normal",
                   tx |-> CASE m = "generic" -> Toshiba_generate_generic_code(c)
                            [] m \in {"rac_pt1411hwru_c", "rac_pt1411hwru_f"} ->
                                 Toshiba_generate_rac_pt1411hwru_code(m, c)
                            [] m = "ras_2819t" -> Toshiba_generate_ras_2819t_code(c)
                            [] OTHER -> Toshiba_generate_generic_code(c)]]

\* ToshibaProtocol._encode_to_pulses(message, nbytes, repeat)
Toshiba_encode_to_pulses(message, repeat) ==
    LET P == ToshibaProtocol
        copy == <<Mark(P.HEADER_MARK), Space(P.HEADER_SPACE)>>
                \o BytePulses(message, FALSE, P.BIT_MARK, P.ONE_SPACE, P.ZERO_SPACE)
                \o <<Mark(P.BIT_MARK), Space(P.GAP_SPACE)>>
    IN  IF repeat = 1 THEN copy \o copy ELSE copy

\* the pulse list of a Toshiba call: its parts in order
RECURSIVE Toshiba_pulses(_)
Toshiba_pulses(parts) ==
    IF parts = <<>> THEN <<>>
    ELSE (IF Head(parts).part = "gap"
          THEN <<Mark(ToshibaProtocol.BIT_MARK), Space(ToshibaProtocol.PACKET_SPACE)>>
          ELSE Toshiba_encode_to_pulses(Head(parts).bytes, Head(parts).repeat))
         \o Toshiba_pulses(Tail(parts))

(***************************************************************************)
(* LG (lg.py).                                                             *)
(***************************************************************************)
LGProtocol ==
    [TEMP_MIN |-> 18, TEMP_MAX |-> 30,
     COMMAND_OFF |-> 786432,          \* 0xC0000
     COMMAND_SWING |-> 65536,         \* 0x10000
     COMMAND_ON_COOL |-> 0,
     COMMAND_ON_DRY |-> 4096,         \* 0x01000
     COMMAND_ON_FAN_ONLY |-> 8192,    \* 0x02000
     COMMAND_ON_AI |-> 12288,         \* 0x03000
     COMMAND_ON_HEAT |-> 16384,       \* 0x04000
     FAN_AUTO |-> 80, FAN_MIN |-> 0, FAN_MED |-> 32, FAN_MAX |-> 64,
     header_high |-> 8000, header_low |-> 4000, bit_high |-> 500,
     bit_one_low |-> 1600, bit_zero_low |-> 500,
     BITS |-> 28]

\* variant: a facade constructed as if a cool frame had been encoded
LG_init_on == [mode_before |-> "cool", swing_active |-> FALSE]

\* LGProtocol.__init__
LG_init == [mode_before |-> "off", swing_active |-> FALSE]

\* the checksum nibble left at zero
LG_calculate_checksum_none(value) == value

\* LGProtocol._calculate_checksum
LG_calculate_checksum(value) ==
    LET sum_val == SumSeq([i \in 1..7 |-> Shr(value, i * 4) % 16])
    IN  (value - (value % 16)) + (sum_val % 16)

\* variant: an off frame does not reset swing_active (line 113 left out)
LG_generate_ir_code_keeps_swing(st, c) ==
    LET P == LGProtocol
        mode == c.hvac_mode
        base == 142606336      \* 0x8800000
        turnOn == c.swing_mode = "vertical" /\ ~st.swing_active
        turnOff == c.swing_mode = "off" /\ st.swing_active
        swing_changed == turnOn \/ turnOff
        swing1 == IF turnOn THEN TRUE ELSE IF turnOff THEN FALSE ELSE st.swing_active
        climate_is_off == st.mode_before = "off"
        cmd == CASE mode = "off" -> P.COMMAND_OFF
                 [] mode = "cool" -> IF climate_is_off THEN P.COMMAND_ON_COOL ELSE 32768
                 [] mode = "dry" -> IF climate_is_off THEN P.COMMAND_ON_DRY ELSE 36864
                 [] mode = "fan_only" -> IF climate_is_off THEN P.COMMAND_ON_FAN_ONLY ELSE 40960
                 [] mode = "heat_cool" -> IF climate_is_off THEN P.COMMAND_ON_AI ELSE 45056
                 [] mode = "heat" -> IF climate_is_off THEN P.COMMAND_ON_HEAT ELSE 49152
                 [] OTHER -> 0
        fan == IF mode = "off" THEN P.FAN_AUTO
               ELSE CASE c.fan_mode = "high" -> P.FAN_MAX
                      [] c.fan_mode = "medium" -> P.FAN_MED
                      [] c.fan_mode = "low" -> P.FAN_MIN
                      [] OTHER -> P.FAN_AUTO
        temp_val == PyInt(Clamp(c.target_temp, P.TEMP_MIN, P.TEMP_MAX))
        temp == IF mode \in {"cool", "heat", "heat_cool", "auto", "dry"}
                THEN Shl(temp_val - 15, 8) ELSE 0
    IN  IF swing_changed /\ mode # "off"
        THEN [self |-> [st EXCEPT !.swing_active = swing1],
              out |-> [kind |-> "swing",
                       tx |-> <<LG_calculate_checksum(BitOr(base, P.COMMAND_SWING))>>]]
        ELSE [self |-> [mode_before |-> mode,
                        swing_active |-> swing1],
              out |-> [kind |-> "normal",
                       tx |-> <<LG_calculate_checksum(
                                  BitOr(BitOr(BitOr(base, cmd), fan), temp))>>]]

\* LGProtocol.generate_ir_code
LG_generate_ir_code(st, c) ==
    LET P == LGProtocol
        mode == c.hvac_mode
        base == 142606336      \* 0x8800000
        turnOn == c.swing_mode = "vertical" /\ ~st.swing_active
        turnOff == c.swing_mode = "off" /\ st.swing_active
        swing_changed == turnOn \/ turnOff
        swing1 == IF turnOn THEN TRUE ELSE IF turnOff THEN FALSE ELSE st.swing_active
        climate_is_off == st.mode_before = "off"
        cmd == CASE mode = "off" -> P.COMMAND_OFF
                 [] mode = "cool" -> IF climate_is_off THEN P.COMMAND_ON_COOL ELSE 32768
                 [] mode = "dry" -> IF climate_is_off THEN P.COMMAND_ON_DRY ELSE 36864
                 [] mode = "fan_only" -> IF climate_is_off THEN P.COMMAND_ON_FAN_ONLY ELSE 40960
                 [] mode = "heat_cool" -> IF climate_is_off THEN P.COMMAND_ON_AI ELSE 45056
                 [] mode = "heat" -> IF climate_is_off THEN P.COMMAND_ON_HEAT ELSE 49152
                 [] OTHER -> 0
        fan == IF mode = "off" THEN P.FAN_AUTO
               ELSE CASE c.fan_mode = "high" -> P.FAN_MAX
                      [] c.fan_mode = "medium" -> P.FAN_MED
                      [] c.fan_mode = "low" -> P.FAN_MIN
                      [] OTHER -> P.FAN_AUTO
        temp_val == PyInt(Clamp(c.target_temp, P.TEMP_MIN, P.TEMP_MAX))
        temp == IF mode \in {"cool", "heat", "heat_cool", "auto", "dry"}
                THEN Shl(temp_val - 15, 8) ELSE 0
    IN  IF swing_changed /\ mode # "off"
        THEN [self |-> [st EXCEPT !.swing_active = swing1],
              out |-> [kind |-> "swing",
                       tx |-> <<LG_calculate_checksum(BitOr(base, P.COMMAND_SWING))>>]]
        ELSE [self |-> [mode_before |-> mode,
                        swing_active |-> IF mode = "off" THEN FALSE ELSE swing1],
              out |-> [kind |-> "normal",
                       tx |-> <<LG_calculate_checksum(
                                  BitOr(BitOr(BitOr(base, cmd), fan), temp))>>]]

\* LGProtocol._encode_to_pulses
LG_encode_to_pulses(value) ==
    LET P == LGProtocol
    IN  <<Mark(P.header_high), Space(P.header_low)>>
        \o WordPulses(value, P.BITS, P.bit_high, P.bit_one_low, P.bit_zero_low)
        \o <<Mark(P.bit_high)>>

(***************************************************************************)
(* Midea (midea.py).  set_fahrenheit is never called by the integration:   *)
(* fahrenheit_mode keeps its constructor value False.                      *)
(***************************************************************************)
MideaProtocol ==
    [TEMPC_MIN |-> 17, TEMPC_MAX |-> 30,
     MIDEA_TYPE_CONTROL |-> 130,      \* 0x82
     MIDEA_TYPE_SPECIAL |-> 132,      \* 0x84
     VSWING_TOGGLE |-> 2,
     MODE_COOL |-> 0, MODE_DRY |-> 1, MODE_AUTO |-> 2, MODE_HEAT |-> 3, MODE_FAN_ONLY |-> 4,
     FAN_AUTO |-> 0, FAN_LOW |-> 1, FAN_MEDIUM |-> 2, FAN_HIGH |-> 3,
     BIT_MARK |-> 560, ZERO_SPACE |-> 560, ONE_SPACE |-> 1680,
     HEADER_MARK |-> 4500, HEADER_SPACE |-> 4500]

\* MideaProtocol.__init__
Midea_init == [swing_pending |-> FALSE, fahrenheit_mode |-> FALSE]

\* MideaProtocol._hvac_mode_to_midea
Midea_hvac_mode_to_midea(hvac_mode) ==
    CASE hvac_mode = "cool" -> MideaProtocol.MODE_COOL
      [] hvac_mode = "dry" -> MideaProtocol.MODE_DRY
      [] hvac_mode = "heat" -> MideaProtocol.MODE_HEAT
      [] hvac_mode = "fan_only" -> MideaProtocol.MODE_FAN_ONLY
      [] OTHER -> MideaProtocol.MODE_AUTO

\* MideaProtocol._fan_mode_to_midea
Midea_fan_mode_to_midea(fan_mode) ==
    CASE fan_mode = "low" -> MideaProtocol.FAN_LOW
      [] fan_mode = "medium" -> MideaProtocol.FAN_MEDIUM
      [] fan_mode = "high" -> MideaProtocol.FAN_HIGH
      [] OTHER -> MideaProtocol.FAN_AUTO

\* lines 172-178 and 187-191: data[4] = XOR of the five bytes of data, whose
\* last byte is still the 0xFF placeholder
Midea_checksum(data) == Put(data, 4, XorSeq(data))

\* MideaProtocol._generate_control_data (Celsius branch)
Midea_generate_control_data(c) ==
    LET P == MideaProtocol
        mode_value == Midea_hvac_mode_to_midea(c.hvac_mode)
        b1a == IF c.hvac_mode # "off" THEN 128 ELSE 0
        b1b == BitOr(BitOr(b1a, mode_value), Shl(Midea_fan_mode_to_midea(c.fan_mode), 3))
        byte1 == IF c.fan_mode = "auto"
                    /\ mode_value \in {P.MODE_COOL, P.MODE_HEAT, P.MODE_FAN_ONLY}
                 THEN BitOr(b1b, 32) ELSE b1b
        temp_c == Clamp(c.target_temp, P.TEMPC_MIN, P.TEMPC_MAX)
        temp_val == PyRound(temp_c) - P.TEMPC_MIN
        byte2 == IF c.hvac_mode = "fan_only" THEN BitOr(temp_val, 31) ELSE temp_val
    IN  Midea_checksum(<<P.MIDEA_TYPE_CONTROL, byte1, byte2, 255, 255>>)

\* MideaProtocol._generate_swing_toggle: the special data
Midea_generate_swing_toggle ==
    Midea_checksum(<<MideaProtocol.MIDEA_TYPE_SPECIAL, MideaProtocol.VSWING_TOGGLE,
                     255, 255, 255>>)

\* MideaProtocol.generate_ir_code
Midea_generate_ir_code(st, c) ==
    IF c.swing_mode = "vertical" /\ ~st.swing_pending
    THEN [self |-> [st EXCEPT !.swing_pending = TRUE],
          out |-> [kind |-> "swing", tx |-> <<Midea_generate_swing_toggle>>]]
    ELSE [self |-> [st EXCEPT !.swing_pending = FALSE],
          out |-> [kind |-> "normal", tx |-> <<Midea_generate_control_data(c)>>]]

\* MideaProtocol._encode_midea_data
Midea_encode_midea_data(data) ==
    LET P == MideaProtocol
    IN  <<Mark(P.HEADER_MARK), Space(P.HEADER_SPACE)>>
        \o BytePulses(data, TRUE, P.BIT_MARK, P.ONE_SPACE, P.ZERO_SPACE)
        \o <<Mark(P.BIT_MARK)>>

(***************************************************************************)
(* Ballu (ballu.py).                                                       *)
(***************************************************************************)
BalluProtocol ==
    [TEMP_MIN |-> 16, TEMP_MAX |-> 32, STATE_LENGTH |-> 13,
     MODE_AUTO |-> 0, MODE_COOL |-> 32, MODE_DRY |-> 64, MODE_HEAT |-> 128, MODE_FAN |-> 192,
     FAN_AUTO |-> 160, FAN_HIGH |-> 32, FAN_MED |-> 64, FAN_LOW |-> 96,
     SWING_VER |-> 7, SWING_HOR |-> 224, POWER_MASK |-> 32,
     FIXED_BYTE0 |-> 195,     \* 0xC3
     FIXED_BYTE11 |-> 30,     \* 0x1E
     HEADER_MARK |-> 9000, HEADER_SPACE |-> 4500, BIT_MARK |-> 575,
     ONE_SPACE |-> 1675, ZERO_SPACE |-> 550]

\* ClimateIRProtocol.__init__: the facades without tracked state
Stateless_init == [none |-> TRUE]

\* BalluProtocol._hvac_mode_to_ballu
Ballu_hvac_mode_to_ballu(hvac_mode) ==
    CASE hvac_mode = "heat" -> BalluProtocol.MODE_HEAT
      [] hvac_mode = "cool" -> BalluProtocol.MODE_COOL
      [] hvac_mode = "dry" -> BalluProtocol.MODE_DRY
      [] hvac_mode = "fan_only" -> BalluProtocol.MODE_FAN
      [] OTHER -> BalluProtocol.MODE_AUTO

\* BalluProtocol._fan_mode_to_ballu
Ballu_fan_mode_to_ballu(fan_mode) ==
    CASE fan_mode = "high" -> BalluProtocol.FAN_HIGH
      [] fan_mode = "medium" -> BalluProtocol.FAN_MED
      [] fan_mode = "low" -> BalluProtocol.FAN_LOW
      [] OTHER -> BalluProtocol.FAN_AUTO

\* a frame whose last byte is left at zero
SumChecksum_none(bytes) == bytes \o <<0>>

\* checksum = sum of the bytes so far, & 0xFF, stored as the last byte
\* (ballu.py 107-111, tcl.py 156-160, mitsubishi.py 193-195)
SumChecksum(bytes) == bytes \o <<SumSeq(bytes) % 256>>

\* BalluProtocol.generate_ir_code: remote_state
Ballu_generate_ir_code(c) ==
    LET P == BalluProtocol
        temp_int == PyRound(Clamp(c.target_temp, P.TEMP_MIN, P.TEMP_MAX))
        swing_ver == c.swing_mode \in {"vertical", "both"}
        swing_hor == c.swing_mode \in {"horizontal", "both"}
        temp_bits == BitAnd(Shl(temp_int - 8, 3), 248)
        b1 == BitOr(temp_bits, IF swing_ver THEN 0 ELSE P.SWING_VER)
        b2 == IF swing_hor THEN 0 ELSE P.SWING_HOR
        b9 == IF c.hvac_mode # "off" THEN P.POWER_MASK ELSE 0
    IN  SumChecksum(<<P.FIXED_BYTE0, b1, b2, 0, Ballu_fan_mode_to_ballu(c.fan_mode), 0,
                      Ballu_hvac_mode_to_ballu(c.hvac_mode), 0, 0, b9, 0, P.FIXED_BYTE11>>)

\* BalluProtocol._encode_to_pulses
Ballu_encode_to_pulses(remote_state) ==
    LET P == BalluProtocol
    IN  <<Mark(P.HEADER_MARK), Space(P.HEADER_SPACE)>>
        \o BytePulses(remote_state, TRUE, P.BIT_MARK, P.ONE_SPACE, P.ZERO_SPACE)
        \o <<Mark(P.BIT_MARK)>>

(***************************************************************************)
(* TCL112 (tcl.py).                                                        *)
(***************************************************************************)
TCLProtocol ==
    [TEMP_MIN |-> 16, TEMP_MAX |-> 31, STATE_LENGTH |-> 14,
     TCL_HEAT |-> 1, TCL_DRY |-> 2, TCL_COOL |-> 3, TCL_FAN |-> 7, TCL_AUTO |-> 8,
     FAN_AUTO |-> 0, FAN_LOW |-> 2, FAN_MED |-> 3, FAN_HIGH |-> 5,
     VSWING_MASK |-> 56, POWER_MASK |-> 4, HALF_DEGREE |-> 32,
     HEADER_MARK |-> 3100, HEADER_SPACE |-> 1650, BIT_MARK |-> 500,
     ONE_SPACE |-> 1100, ZERO_SPACE |-> 350, GAP |-> 1650,
     FIXED_BYTE0 |-> 35, FIXED_BYTE1 |-> 203, FIXED_BYTE2 |-> 38, FIXED_BYTE3 |-> 1]

\* variant: the half-degree flag of byte 12 is never set
TCL_generate_ir_code_nohalf(c) ==
    LET P == TCLProtocol
        mode == c.hvac_mode
        b5 == IF mode = "off" THEN BitClear(36, P.POWER_MASK) ELSE BitOr(36, P.POWER_MASK)
        b6 == IF mode = "off" THEN 3
              ELSE BitOr(BitAnd(3, 240),
                         CASE mode = "heat" -> P.TCL_HEAT
                           [] mode = "cool" -> P.TCL_COOL
                           [] mode = "dry" -> P.TCL_DRY
                           [] mode = "fan_only" -> P.TCL_FAN
                           [] OTHER -> P.TCL_AUTO)
        \* int(safe_temp * 2): the temperature is already held in half degrees
        half_degrees == Clamp(c.target_temp, P.TEMP_MIN, P.TEMP_MAX)
        b12 == 0
        temp_value == P.TEMP_MAX - (half_degrees \div 2)
        b7 == BitOr(BitAnd(7, 240), temp_value)
        fan_value == CASE c.fan_mode = "high" -> P.FAN_HIGH
                       [] c.fan_mode = "medium" -> P.FAN_MED
                       [] c.fan_mode = "low" -> P.FAN_LOW
                       [] OTHER -> P.FAN_AUTO
        b8a == BitOr(BitAnd(64, 248), fan_value)
        b8 == IF c.swing_mode = "vertical" THEN BitOr(b8a, P.VSWING_MASK)
              ELSE BitClear(b8a, P.VSWING_MASK)
    IN  SumChecksum(<<P.FIXED_BYTE0, P.FIXED_BYTE1, P.FIXED_BYTE2, P.FIXED_BYTE3, 0,
                      b5, b6, b7, b8, 0, 0, 0, b12>>)

\* TCLProtocol.generate_ir_code: remote_state
TCL_generate_ir_code(c) ==
    LET P == TCLProtocol
        mode == c.hvac_mode
        b5 == IF mode = "off" THEN BitClear(36, P.POWER_MASK) ELSE BitOr(36, P.POWER_MASK)
        b6 == IF mode = "off" THEN 3
              ELSE BitOr(BitAnd(3, 240),
                         CASE mode = "heat" -> P.TCL_HEAT
                           [] mode = "cool" -> P.TCL_COOL
                           [] mode = "dry" -> P.TCL_DRY
                           [] mode = "fan_only" -> P.TCL_FAN
                           [] OTHER -> P.TCL_AUTO)
        \* int(safe_temp * 2): the temperature is already held in half degrees
        half_degrees == Clamp(c.target_temp, P.TEMP_MIN, P.TEMP_MAX)
        b12 == IF half_degrees % 2 = 1 THEN P.HALF_DEGREE ELSE 0
        temp_value == P.TEMP_MAX - (half_degrees \div 2)
        b7 == BitOr(BitAnd(7, 240), temp_value)
        fan_value == CASE c.fan_mode = "high" -> P.FAN_HIGH
                       [] c.fan_mode = "medium" -> P.FAN_MED
                       [] c.fan_mode = "low" -> P.FAN_LOW
                       [] OTHER -> P.FAN_AUTO
        b8a == BitOr(BitAnd(64, 248), fan_value)
        b8 == IF c.swing_mode = "vertical" THEN BitOr(b8a, P.VSWING_MASK)
              ELSE BitClear(b8a, P.VSWING_MASK)
    IN  SumChecksum(<<P.FIXED_BYTE0, P.FIXED_BYTE1, P.FIXED_BYTE2, P.FIXED_BYTE3, 0,
                      b5, b6, b7, b8, 0, 0, 0, b12>>)

\* TCLProtocol._encode_to_pulses
TCL_encode_to_pulses(remote_state) ==
    LET P == TCLProtocol
    IN  <<Mark(P.HEADER_MARK), Space(P.HEADER_SPACE)>>
        \o BytePulses(remote_state, TRUE, P.BIT_MARK, P.ONE_SPACE, P.ZERO_SPACE)
        \o <<Mark(P.BIT_MARK), Space(P.GAP)>>

(***************************************************************************)
(* Mitsubishi (mitsubishi.py).  set_fan_mode_type and the direction        *)
(* setters are never called: the three settings keep their constructor     *)
(* values.                                                                 *)
(***************************************************************************)
MitsubishiProtocol ==
    [TEMP_MIN |-> 16, TEMP_MAX |-> 31,
     MITSUBISHI_OFF |-> 0, POWER_ON |-> 32,
     MITSUBISHI_MODE_AUTO |-> 32, MITSUBISHI_MODE_COOL |-> 24, MITSUBISHI_MODE_DRY |-> 16,
     MITSUBISHI_MODE_FAN_ONLY |-> 56, MITSUBISHI_MODE_HEAT |-> 8,
     MITSUBISHI_MODE_A_HEAT |-> 0, MITSUBISHI_MODE_A_DRY |-> 2,
     MITSUBISHI_MODE_A_COOL |-> 6, MITSUBISHI_MODE_A_AUTO |-> 6,
     MITSUBISHI_WIDE_VANE_SWING |-> 192, MITSUBISHI_FAN_AUTO |-> 0,
     MITSUBISHI_VERTICAL_VANE_SWING |-> 56, MITSUBISHI_OTHERWISE |-> 64,
     BIT_MARK |-> 430, ONE_SPACE |-> 1250, ZERO_SPACE |-> 390,
     HEADER_MARK |-> 3500, HEADER_SPACE |-> 1700, MIN_GAP |-> 17500,
     FAN_MODE_3L |-> 0]

\* MitsubishiProtocol.__init__
Mitsubishi_init ==
    [fan_mode_type |-> 0, default_horizontal_direction |-> 48,
     default_vertical_direction |-> 0]

\* MitsubishiProtocol._fan_mode_to_speed
Mitsubishi_fan_mode_to_speed(st, fan_mode) ==
    LET threeL == st.fan_mode_type = MitsubishiProtocol.FAN_MODE_3L
    IN  CASE fan_mode = "auto" -> MitsubishiProtocol.MITSUBISHI_FAN_AUTO
          [] fan_mode = "low" -> 1
          [] fan_mode = "medium" -> IF threeL THEN 2 ELSE 3
          [] fan_mode = "high" -> IF threeL THEN 3 ELSE 4
          [] fan_mode = "middle" -> 2
          [] fan_mode = "quiet" -> 5
          [] OTHER -> MitsubishiProtocol.MITSUBISHI_FAN_AUTO

\* MitsubishiProtocol.generate_ir_code: remote_state
Mitsubishi_generate_ir_code(st, c) ==
    LET P == MitsubishiProtocol
        mode == c.hvac_mode
        swing_horizontal == c.swing_mode \in {"horizontal", "both"}
        swing_vertical == c.swing_mode \in {"vertical", "both"}
        b5 == IF mode = "off" THEN P.MITSUBISHI_OFF ELSE P.POWER_ON
        m == CASE mode = "heat" -> <<P.MITSUBISHI_MODE_HEAT, P.MITSUBISHI_MODE_A_HEAT>>
               [] mode = "dry" -> <<P.MITSUBISHI_MODE_DRY, P.MITSUBISHI_MODE_A_DRY>>
               [] mode = "cool" -> <<P.MITSUBISHI_MODE_COOL, P.MITSUBISHI_MODE_A_COOL>>
               [] mode = "fan_only" -> <<P.MITSUBISHI_MODE_FAN_ONLY, P.MITSUBISHI_MODE_A_AUTO>>
               [] mode \in {"auto", "heat_cool"} ->
                    <<P.MITSUBISHI_MODE_AUTO, P.MITSUBISHI_MODE_A_AUTO>>
               [] OTHER -> <<P.MITSUBISHI_MODE_COOL, P.MITSUBISHI_MODE_A_COOL>>
        b7 == IF mode = "dry" THEN 24 - P.TEMP_MIN
              ELSE PyInt(Clamp(c.target_temp, P.TEMP_MIN, P.TEMP_MAX)) - P.TEMP_MIN
        b8 == BitOr(m[2], IF swing_horizontal THEN P.MITSUBISHI_WIDE_VANE_SWING
                          ELSE st.default_horizontal_direction)
        fan_speed == Mitsubishi_fan_mode_to_speed(st, c.fan_mode)
        b9 == BitOr(BitOr(fan_speed, IF swing_vertical THEN P.MITSUBISHI_VERTICAL_VANE_SWING
                                     ELSE st.default_vertical_direction),
                    P.MITSUBISHI_OTHERWISE)
    IN  SumChecksum(<<35, 203, 38, 1, 0, b5, m[1], b7, b8, b9, 0, 0, 0, 0, 0, 0, 0>>)

\* MitsubishiProtocol._encode_to_pulses
Mitsubishi_encode_to_pulses(remote_state) ==
    LET P == MitsubishiProtocol
        frame == <<Mark(P.HEADER_MARK), Space(P.HEADER_SPACE)>>
                 \o BytePulses(remote_state, TRUE, P.BIT_MARK, P.ONE_SPACE, P.ZERO_SPACE)
    IN  frame \o <<Mark(P.BIT_MARK), Space(P.MIN_GAP)>> \o frame \o <<Mark(P.BIT_MARK)>>

(***************************************************************************)
(* Daikin (daikin.py).                                                     *)
(***************************************************************************)
DaikinProtocol ==
    [TEMP_MIN |-> 10, TEMP_MAX |-> 30,
     DAIKIN_MODE_AUTO |-> 0, DAIKIN_MODE_COOL |-> 48, DAIKIN_MODE_HEAT |-> 64,
     DAIKIN_MODE_DRY |-> 32, DAIKIN_MODE_FAN |-> 96, DAIKIN_MODE_OFF |-> 0,
     DAIKIN_MODE_ON |-> 1,
     DAIKIN_FAN_AUTO |-> 160, DAIKIN_FAN_SILENT |-> 176, DAIKIN_FAN_1 |-> 48,
     DAIKIN_FAN_3 |-> 80, DAIKIN_FAN_5 |-> 112,
     HEADER_MARK |-> 3360, HEADER_SPACE |-> 1760, BIT_MARK |-> 520,
     ONE_SPACE |-> 1370, ZERO_SPACE |-> 360, MESSAGE_SPACE |-> 32300]

\* DaikinProtocol.__init__
Daikin_init == [swing_vertical |-> FALSE, swing_horizontal |-> FALSE]

\* DaikinProtocol._operation_mode
Daikin_operation_mode(hvac_mode) ==
    LET P == DaikinProtocol
    IN  CASE hvac_mode = "off" -> P.DAIKIN_MODE_OFF
          [] hvac_mode = "cool" -> BitOr(P.DAIKIN_MODE_ON, P.DAIKIN_MODE_COOL)
          [] hvac_mode = "heat" -> BitOr(P.DAIKIN_MODE_ON, P.DAIKIN_MODE_HEAT)
          [] hvac_mode = "dry" -> BitOr(P.DAIKIN_MODE_ON, P.DAIKIN_MODE_DRY)
          [] hvac_mode = "fan_only" -> BitOr(P.DAIKIN_MODE_ON, P.DAIKIN_MODE_FAN)
          [] OTHER -> BitOr(P.DAIKIN_MODE_ON, P.DAIKIN_MODE_AUTO)

\* DaikinProtocol._temperature_value: int(temp_val * 2) is the clamped
\* temperature in half degrees
Daikin_temperature_value(hvac_mode, target_temp) ==
    CASE hvac_mode = "fan_only" -> 50
      [] hvac_mode = "dry" -> 192
      [] OTHER -> Clamp(target_temp, DaikinProtocol.TEMP_MIN, DaikinProtocol.TEMP_MAX)

\* DaikinProtocol._fan_speed_value (the value returned, lines 196-218)
Daikin_fan_speed_value(fan_mode, swing_mode) ==
    LET P == DaikinProtocol
        fan_byte == CASE fan_mode = "quiet" -> P.DAIKIN_FAN_SILENT
                      [] fan_mode = "low" -> P.DAIKIN_FAN_1
                      [] fan_mode = "medium" -> P.DAIKIN_FAN_3
                      [] fan_mode = "high" -> P.DAIKIN_FAN_5
                      [] OTHER -> P.DAIKIN_FAN_AUTO
        result == Shl(fan_byte, 8)
    IN  CASE swing_mode = "vertical" -> BitOr(result, 3840)
          [] swing_mode = "horizontal" -> BitOr(result, 15)
          [] swing_mode = "both" -> BitOr(result, 3855)
          [] OTHER -> result

\* DaikinProtocol.generate_ir_code: the 38-entry remote_state, its checksum
\* of bytes 16..34 stored at index 35
Daikin_generate_ir_code(c) ==
    LET fan_speed_value == Daikin_fan_speed_value(c.fan_mode, c.swing_mode)
        r0 == <<17, 218, 39, 0, 197, 0, 0, 215,
                17, 218, 39, 0, 66, 73, 5, 162,
                17, 218, 39, 0,
                0, Daikin_operation_mode(c.hvac_mode),
                Daikin_temperature_value(c.hvac_mode, c.target_temp), 0,
                Shr(fan_speed_value, 8) % 256, fan_speed_value % 256,
                0, 0, 0, 0, 6, 96, 0, 0, 192, 0, 0, 0>>
    IN  Put(r0, 35, SumSeq(Slice(r0, 16, 35)) % 256)

\* variant: the blocks are joined by MESSAGE_SPACE alone, without the
\* closing BIT_MARK of the block
Daikin_encode_to_pulses_nomark(remote_state) ==
    LET P == DaikinProtocol
        Block(bs) == <<Mark(P.HEADER_MARK), Space(P.HEADER_SPACE)>>
                     \o BytePulses(bs, TRUE, P.BIT_MARK, P.ONE_SPACE, P.ZERO_SPACE)
    IN  Block(Slice(remote_state, 0, 8)) \o <<Space(P.MESSAGE_SPACE)>>
        \o Block(Slice(remote_state, 8, 16)) \o <<Space(P.MESSAGE_SPACE)>>
        \o Block(Slice(remote_state, 16, 35)) \o <<Mark(P.BIT_MARK)>>

\* DaikinProtocol._encode_to_pulses
Daikin_encode_to_pulses(remote_state) ==
    LET P == DaikinProtocol
        Block(bs) == <<Mark(P.HEADER_MARK), Space(P.HEADER_SPACE)>>
                     \o BytePulses(bs, TRUE, P.BIT_MARK, P.ONE_SPACE, P.ZERO_SPACE)
    IN  Block(Slice(remote_state, 0, 8)) \o <<Mark(P.BIT_MARK), Space(P.MESSAGE_SPACE)>>
        \o Block(Slice(remote_state, 8, 16)) \o <<Mark(P.BIT_MARK), Space(P.MESSAGE_SPACE)>>
        \o Block(Slice(remote_state, 16, 35)) \o <<Mark(P.BIT_MARK)>>

(***************************************************************************)
(* Fujitsu General (fujitsu.py).                                           *)
(***************************************************************************)
FujitsuProtocol ==
    [TEMP_MIN |-> 16, TEMP_MAX |-> 30,
     STATE_MESSAGE_LENGTH |-> 16, UTIL_MESSAGE_LENGTH |-> 7,
     COMMON_BYTE0 |-> 20, COMMON_BYTE1 |-> 99, COMMON_BYTE2 |-> 0,
     COMMON_BYTE3 |-> 16, COMMON_BYTE4 |-> 16,
     MESSAGE_TYPE_STATE |-> 254, MESSAGE_TYPE_OFF |-> 2,
     STATE_HEADER_BYTE0 |-> 9, STATE_HEADER_BYTE1 |-> 48,
     STATE_FOOTER_BYTE0 |-> 32,
     TEMPERATURE_NIBBLE |-> 16, POWER_ON_NIBBLE |-> 17, MODE_NIBBLE |-> 19,
     SWING_NIBBLE |-> 20, FAN_NIBBLE |-> 21,
     POWER_ON |-> 1,
     MODE_AUTO |-> 0, MODE_COOL |-> 1, MODE_DRY |-> 2, MODE_FAN |-> 3,
     MODE_HEAT |-> 4,
     SWING_NONE |-> 0, SWING_VERTICAL |-> 1, SWING_HORIZONTAL |-> 2,
     SWING_BOTH |-> 3,
     FAN_AUTO |-> 0, FAN_HIGH |-> 1, FAN_MEDIUM |-> 2, FAN_LOW |-> 3,
     FAN_SILENT |-> 4,
     HEADER_MARK |-> 3300, HEADER_SPACE |-> 1600, BIT_MARK |-> 420,
     ONE_SPACE |-> 1200, ZERO_SPACE |-> 420, TRL_MARK |-> 420,
     TRL_SPACE |-> 8000]

\* FujitsuProtocol.__init__
Fujitsu_init == [power_on |-> FALSE]

\* FujitsuProtocol._set_nibble: even nibbles are the high half of the byte
Fujitsu_set_nibble(message, nibble, value) ==
    LET byte_index == nibble \div 2
        shift == IF nibble % 2 = 1 THEN 0 ELSE 4
        mask == Shl(15, shift)
    IN  Put(message, byte_index,
            BitOr(BitClear(At(message, byte_index), mask),
                  Shl(BitAnd(value, 15), shift)))

\* FujitsuProtocol._hvac_mode_to_fujitsu
Fujitsu_hvac_mode_to_fujitsu(hvac_mode) ==
    LET P == FujitsuProtocol
    IN  CASE hvac_mode = "cool" -> P.MODE_COOL
          [] hvac_mode = "heat" -> P.MODE_HEAT
          [] hvac_mode = "dry" -> P.MODE_DRY
          [] hvac_mode = "fan_only" -> P.MODE_FAN
          [] OTHER -> P.MODE_AUTO

\* FujitsuProtocol._fan_mode_to_fujitsu
Fujitsu_fan_mode_to_fujitsu(fan_mode) ==
    LET P == FujitsuProtocol
    IN  CASE fan_mode = "high" -> P.FAN_HIGH
          [] fan_mode = "medium" -> P.FAN_MEDIUM
          [] fan_mode = "low" -> P.FAN_LOW
          [] fan_mode = "quiet" -> P.FAN_SILENT
          [] OTHER -> P.FAN_AUTO

\* FujitsuProtocol._swing_mode_to_fujitsu
Fujitsu_swing_mode_to_fujitsu(swing_mode) ==
    LET P == FujitsuProtocol
    IN  CASE swing_mode = "vertical" -> P.SWING_VERTICAL
          [] swing_mode = "horizontal" -> P.SWING_HORIZONTAL
          [] swing_mode = "both" -> P.SWING_BOTH
          [] OTHER -> P.SWING_NONE

\* FujitsuProtocol._checksum_state: bytes 7..14
Fujitsu_checksum_state(message) ==
    (256 - SumSeq(Slice(message, 7, FujitsuProtocol.STATE_MESSAGE_LENGTH - 1))) % 256

\* FujitsuProtocol._checksum_util
Fujitsu_checksum_util(message) == (255 - At(message, 5)) % 256

\* FujitsuProtocol._generate_state_message
Fujitsu_generate_state_message(st, c) ==
    LET P == FujitsuProtocol
        r0 == <<P.COMMON_BYTE0, P.COMMON_BYTE1, P.COMMON_BYTE2, P.COMMON_BYTE3,
                P.COMMON_BYTE4, P.MESSAGE_TYPE_STATE, P.STATE_HEADER_BYTE0,
                P.STATE_HEADER_BYTE1, 0, 0, 0, 0, 0, 0, P.STATE_FOOTER_BYTE0, 0>>
        temp_val == Clamp(c.target_temp, P.TEMP_MIN, P.TEMP_MAX)
        temp_offset == PyInt(temp_val) - P.TEMP_MIN
        r1 == Fujitsu_set_nibble(r0, P.TEMPERATURE_NIBBLE, temp_offset)
        r2 == IF ~st.power_on
              THEN Fujitsu_set_nibble(r1, P.POWER_ON_NIBBLE, P.POWER_ON)
              ELSE r1
        r3 == Fujitsu_set_nibble(r2, P.MODE_NIBBLE,
                                 Fujitsu_hvac_mode_to_fujitsu(c.hvac_mode))
        r4 == Fujitsu_set_nibble(r3, P.FAN_NIBBLE,
                                 Fujitsu_fan_mode_to_fujitsu(c.fan_mode))
        r5 == Fujitsu_set_nibble(r4, P.SWING_NIBBLE,
                                 Fujitsu_swing_mode_to_fujitsu(c.swing_mode))
        r6 == Put(r5, P.STATE_MESSAGE_LENGTH - 1, Fujitsu_checksum_state(r5))
    IN  [self |-> [power_on |-> TRUE], out |-> [kind |-> "state", tx |-> <<r6>>]]

\* variant: the OFF message leaves the recorded power state as it was
Fujitsu_generate_off_message_keeps(st) ==
    LET P == FujitsuProtocol
        r0 == <<P.COMMON_BYTE0, P.COMMON_BYTE1, P.COMMON_BYTE2, P.COMMON_BYTE3,
                P.COMMON_BYTE4, P.MESSAGE_TYPE_OFF, 0>>
        r1 == Put(r0, 6, 255 - P.MESSAGE_TYPE_OFF)
    IN  [self |-> st, out |-> [kind |-> "off", tx |-> <<r1>>]]

\* FujitsuProtocol._generate_off_message
Fujitsu_generate_off_message(st) ==
    LET P == FujitsuProtocol
        r0 == <<P.COMMON_BYTE0, P.COMMON_BYTE1, P.COMMON_BYTE2, P.COMMON_BYTE3,
                P.COMMON_BYTE4, P.MESSAGE_TYPE_OFF, 0>>
        r1 == Put(r0, 6, Fujitsu_checksum_util(r0))
    IN  [self |-> [power_on |-> FALSE], out |-> [kind |-> "off", tx |-> <<r1>>]]

\* FujitsuProtocol.generate_ir_code
Fujitsu_generate_ir_code(st, c) ==
    IF c.hvac_mode = "off" THEN Fujitsu_generate_off_message(st)
    ELSE Fujitsu_generate_state_message(st, c)

\* FujitsuProtocol._encode_to_pulses
Fujitsu_encode_to_pulses(message) ==
    LET P == FujitsuProtocol
    IN  <<Mark(P.HEADER_MARK), Space(P.HEADER_SPACE)>>
        \o BytePulses(message, TRUE, P.BIT_MARK, P.ONE_SPACE, P.ZERO_SPACE)
        \o <<Mark(P.TRL_MARK), Space(P.TRL_SPACE)>>

(***************************************************************************)
(* General / NEC (general.py).                                             *)
(***************************************************************************)
GeneralProtocol ==
    [TEMP_MIN |-> 16, TEMP_MAX |-> 30,
     HEADER_MARK |-> 9000, HEADER_SPACE |-> 4500, BIT_MARK |-> 560,
     ONE_SPACE |-> 1690, ZERO_SPACE |-> 560,
     NEC_ADDRESS |-> 0,
     MODE_COOL |-> 1, MODE_HEAT |-> 2, MODE_DRY |-> 3, MODE_FAN |-> 4,
     MODE_AUTO |-> 5,
     FAN_AUTO |-> 0, FAN_LOW |-> 1, FAN_MEDIUM |-> 2, FAN_HIGH |-> 3]

\* GeneralProtocol.__init__ with custom_mappings=None: both dicts empty
General_init == [mode_mappings |-> <<>>, fan_mappings |-> <<>>]

\* GeneralProtocol._get_mode_code
General_get_mode_code(st, hvac_mode) ==
    LET P == GeneralProtocol
    IN  IF hvac_mode \in DOMAIN st.mode_mappings THEN st.mode_mappings[hvac_mode]
        ELSE CASE hvac_mode = "cool" -> P.MODE_COOL
               [] hvac_mode = "heat" -> P.MODE_HEAT
               [] hvac_mode = "dry" -> P.MODE_DRY
               [] hvac_mode = "fan_only" -> P.MODE_FAN
               [] hvac_mode \in {"auto", "heat_cool"} -> P.MODE_AUTO
               [] OTHER -> 0

\* GeneralProtocol._get_fan_code (computed by generate_ir_code, never sent)
General_get_fan_code(st, fan_mode) ==
    LET P == GeneralProtocol
    IN  IF fan_mode \in DOMAIN st.fan_mappings THEN st.fan_mappings[fan_mode]
        ELSE CASE fan_mode = "low" -> P.FAN_LOW
               [] fan_mode = "medium" -> P.FAN_MEDIUM
               [] fan_mode = "high" -> P.FAN_HIGH
               [] OTHER -> P.FAN_AUTO

\* variant: a requested vertical swing is sent as bit 3 of the mode nibble
General_generate_ir_code_swing(st, c) ==
    LET P == GeneralProtocol
        temp_val == Clamp(c.target_temp, P.TEMP_MIN, P.TEMP_MAX)
        temp_code == PyInt(temp_val) - P.TEMP_MIN
        mode_code == BitOr(General_get_mode_code(st, c.hvac_mode),
                           IF c.swing_mode = "vertical" THEN 8 ELSE 0)
        command_byte == BitOr(Shl(temp_code, 4), BitAnd(mode_code, 15))
    IN  <<P.NEC_ADDRESS, Inv8(P.NEC_ADDRESS), command_byte, Inv8(command_byte)>>

\* GeneralProtocol.generate_ir_code: [address, ~address, command, ~command]
General_generate_ir_code(st, c) ==
    LET P == GeneralProtocol
        temp_val == Clamp(c.target_temp, P.TEMP_MIN, P.TEMP_MAX)
        temp_code == PyInt(temp_val) - P.TEMP_MIN
        mode_code == General_get_mode_code(st, c.hvac_mode)
        command_byte == BitOr(Shl(temp_code, 4), BitAnd(mode_code, 15))
    IN  <<P.NEC_ADDRESS, Inv8(P.NEC_ADDRESS), command_byte, Inv8(command_byte)>>

\* GeneralProtocol._encode_nec_frame
General_encode_nec_frame(frame) ==
    LET P == GeneralProtocol
    IN  <<Mark(P.HEADER_MARK), Space(P.HEADER_SPACE)>>
        \o BytePulses(frame, TRUE, P.BIT_MARK, P.ONE_SPACE, P.ZERO_SPACE)
        \o <<Mark(P.BIT_MARK)>>

(***************************************************************************)
(* Gree (gree.py).                                                         *)
(***************************************************************************)
GreeProtocol ==
    [TEMP_MIN |-> 16, TEMP_MAX |-> 30,
     MODE_AUTO |-> 0, MODE_COOL |-> 1, MODE_HEAT |-> 4, MODE_DRY |-> 2,
     MODE_FAN |-> 3, MODE_OFF |-> 0, MODE_ON |-> 8,
     FAN_AUTO |-> 0, FAN_1 |-> 16, FAN_2 |-> 32, FAN_3 |-> 48,
     FAN_TURBO |-> 128, FAN_TURBO_BIT |-> 16, PRESET_SLEEP_BIT |-> 128,
     VDIR_AUTO |-> 0, VDIR_MANUAL |-> 0, VDIR_SWING |-> 1,
     HDIR_MANUAL |-> 0, HDIR_SWING |-> 1,
     MODEL_GENERIC |-> 0, MODEL_YAN |-> 1, MODEL_YAA |-> 2, MODEL_YAC |-> 3,
     MODEL_YAC1FB9 |-> 4, MODEL_YX1FF |-> 5, MODEL_YAG |-> 6,
     HEADER_MARK |-> 9000, HEADER_SPACE |-> 4000, BIT_MARK |-> 620,
     ONE_SPACE |-> 1600, ZERO_SPACE |-> 540, MESSAGE_SPACE |-> 19000,
     YAC1FB9_MESSAGE_SPACE |-> 19980]

GreeModels == {"generic", "yan", "yaa", "yac", "yac1fb9", "yx1ff", "yag"}

\* GreeProtocol._parse_model
Gree_parse_model(model_str) ==
    LET P == GreeProtocol
    IN  CASE model_str = "yan" -> P.MODEL_YAN
          [] model_str = "yaa" -> P.MODEL_YAA
          [] model_str = "yac" -> P.MODEL_YAC
          [] model_str = "yac1fb9" -> P.MODEL_YAC1FB9
          [] model_str = "yx1ff" -> P.MODEL_YX1FF
          [] model_str = "yag" -> P.MODEL_YAG
          [] OTHER -> P.MODEL_GENERIC

\* GreeProtocol.__init__; no attribute "preset" is ever created
Gree_init(m) == [model |-> Gree_parse_model(m), mode_bits |-> 0, preset |-> "unset"]

\* GreeProtocol._operation_mode_value
Gree_operation_mode_value(st, hvac_mode) ==
    LET P == GreeProtocol
        operating_mode ==
            CASE hvac_mode = "cool" -> BitOr(P.MODE_ON, P.MODE_COOL)
              [] hvac_mode = "dry" -> BitOr(P.MODE_ON, P.MODE_DRY)
              [] hvac_mode = "heat" -> BitOr(P.MODE_ON, P.MODE_HEAT)
              [] hvac_mode = "fan_only" -> BitOr(P.MODE_ON, P.MODE_FAN)
              [] OTHER -> BitOr(P.MODE_ON, P.MODE_AUTO)
    IN  IF hvac_mode = "off" THEN P.MODE_OFF
        ELSE IF st.model = P.MODEL_YX1FF /\ st.preset = "sleep"
             THEN BitOr(operating_mode, P.PRESET_SLEEP_BIT)
             ELSE operating_mode

\* GreeProtocol._fan_speed_value
Gree_fan_speed_value(st, fan_mode) ==
    LET P == GreeProtocol
    IN  IF st.model = P.MODEL_YX1FF
        THEN CASE fan_mode = "quiet" -> P.FAN_1
               [] fan_mode = "low" -> P.FAN_2
               [] fan_mode = "medium" -> P.FAN_3
               [] fan_mode = "high" -> P.FAN_TURBO
               [] OTHER -> P.FAN_AUTO
        ELSE CASE fan_mode = "low" -> P.FAN_1
               [] fan_mode = "medium" -> P.FAN_2
               [] fan_mode = "high" -> P.FAN_3
               [] OTHER -> P.FAN_AUTO

\* GreeProtocol._temperature_value
Gree_temperature_value(target_temp) ==
    PyRound(Clamp(target_temp, GreeProtocol.TEMP_MIN, GreeProtocol.TEMP_MAX))

\* GreeProtocol._vertical_swing_value
Gree_vertical_swing_value(swing_mode) ==
    IF swing_mode \in {"vertical", "both"} THEN GreeProtocol.VDIR_SWING
    ELSE GreeProtocol.VDIR_MANUAL

\* GreeProtocol._horizontal_swing_value
Gree_horizontal_swing_value(swing_mode) ==
    IF swing_mode \in {"horizontal", "both"} THEN GreeProtocol.HDIR_SWING
    ELSE GreeProtocol.HDIR_MANUAL

\* GreeProtocol._configure_model_bytes: the if/elif chain in source order
\* (the second YAG arm and the YAC member of the YAA arm are never taken)
Gree_configure_model_bytes(st, r, swing_mode, fan_mode, hvac_mode) ==
    LET P == GreeProtocol
        vertical_swing == Gree_vertical_swing_value(swing_mode)
        horizontal_swing == Gree_horizontal_swing_value(swing_mode)
        swinging == vertical_swing = P.VDIR_SWING \/ horizontal_swing = P.HDIR_SWING
        bit6(x) == BitOr(x, Shl(1, 6))
    IN  IF st.model = P.MODEL_YAN THEN
            [r EXCEPT ![3] = BitOr(BitAnd(32, 15), st.mode_bits), ![4] = 80,
                      ![5] = vertical_swing]
        ELSE IF st.model = P.MODEL_YX1FF \/ st.model = P.MODEL_YAG THEN
            [r EXCEPT ![3] = IF st.model = P.MODEL_YX1FF /\ fan_mode = "high"
                             THEN BitOr(96, P.FAN_TURBO_BIT) ELSE 96,
                      ![4] = 80,
                      ![5] = vertical_swing,
                      ![1] = IF st.model = P.MODEL_YAG /\ swinging
                             THEN bit6(@) ELSE @]
        ELSE IF st.model = P.MODEL_YAG THEN
            [r EXCEPT ![6] = 64, ![1] = IF swinging THEN bit6(@) ELSE @]
        ELSE IF st.model = P.MODEL_YAC \/ st.model = P.MODEL_YAG THEN
            [r EXCEPT ![5] = BitOr(@, Shl(horizontal_swing, 4))]
        ELSE IF st.model \in {P.MODEL_YAA, P.MODEL_YAC, P.MODEL_YAC1FB9} THEN
            [r EXCEPT ![3] = BitOr(BitAnd(32, 15), st.mode_bits), ![4] = 80,
                      ![7] = 32,
                      ![1] = IF vertical_swing = P.VDIR_SWING THEN bit6(@) ELSE @,
                      ![6] = IF vertical_swing # P.VDIR_SWING
                                /\ vertical_swing # P.VDIR_AUTO
                             THEN vertical_swing ELSE @]
        ELSE [r EXCEPT ![3] = 32, ![4] = 80, ![5] = vertical_swing]

\* GreeProtocol._calculate_checksum
Gree_calculate_checksum(st, r) ==
    LET P == GreeProtocol
        lo(i) == BitAnd(At(r, i), 15)
        hi(i) == Shr(BitAnd(At(r, i), 240), 4)
    IN  IF st.model = P.MODEL_YAN \/ st.model = P.MODEL_YX1FF THEN
            Put(r, 7, (Shl(At(r, 0), 4) + Shl(At(r, 1), 4) + 192) % 256)
        ELSE IF st.model = P.MODEL_YAG THEN
            Put(r, 7, Shl((lo(0) + lo(1) + lo(2) + lo(3) + hi(4) + hi(5) + hi(6)
                           + 10) % 16, 4))
        ELSE
            Put(r, 7, BitOr(Shl((lo(0) + lo(1) + lo(2) + lo(3) + hi(5) + hi(6)
                                 + hi(7) + 10) % 16, 4), lo(7)))

\* GreeProtocol.generate_ir_code
Gree_generate_ir_code(st, c) ==
    LET r0 == <<BitOr(Gree_fan_speed_value(st, c.fan_mode),
                      Gree_operation_mode_value(st, c.hvac_mode)),
                Gree_temperature_value(c.target_temp), 0, 0, 0, 32, 0, 0>>
        r1 == Gree_configure_model_bytes(st, r0, c.swing_mode, c.fan_mode,
                                         c.hvac_mode)
    IN  Gree_calculate_checksum(st, r1)

\* GreeProtocol._encode_to_pulses: both halves LSB first, header space always
\* HEADER_SPACE
Gree_encode_to_pulses(st, remote_state) ==
    LET P == GreeProtocol
        bits(bs) == BytePulses(bs, TRUE, P.BIT_MARK, P.ONE_SPACE, P.ZERO_SPACE)
    IN  <<Mark(P.HEADER_MARK), Space(P.HEADER_SPACE)>>
        \o bits(Slice(remote_state, 0, 4))
        \o <<Mark(P.BIT_MARK), Space(P.ZERO_SPACE), Mark(P.BIT_MARK),
             Space(P.ONE_SPACE), Mark(P.BIT_MARK), Space(P.ZERO_SPACE)>>
        \o <<Mark(P.BIT_MARK),
             Space(IF st.model = P.MODEL_YAC1FB9 THEN P.YAC1FB9_MESSAGE_SPACE
                   ELSE P.MESSAGE_SPACE)>>
        \o bits(Slice(remote_state, 4, 8))
        \o <<Mark(P.BIT_MARK)>>

(***************************************************************************)
(* Hitachi AC344 (hitachi.py).  The object keeps its 43-byte remote_state  *)
(* between calls.  _set_bits and _set_bit are always handed a fresh        *)
(* one-element list, so what they compute never reaches remote_state.      *)
(***************************************************************************)
HitachiProtocol ==
    [TEMP_MIN |-> 16, TEMP_MAX |-> 32, TEMP_FAN |-> 27,
     POWER_BYTE |-> 27, MODE_BYTE |-> 25, TEMP_BYTE |-> 13, FAN_BYTE |-> 25,
     SWINGH_BYTE |-> 35, SWINGV_BYTE |-> 37, BUTTON_BYTE |-> 11,
     POWER_ON |-> 241, POWER_OFF |-> 225,
     MODE_FAN |-> 1, MODE_COOL |-> 3, MODE_DRY |-> 5, MODE_HEAT |-> 6,
     MODE_AUTO |-> 7,
     FAN_MIN |-> 1, FAN_LOW |-> 2, FAN_MEDIUM |-> 3, FAN_HIGH |-> 4,
     FAN_AUTO |-> 5, FAN_MAX |-> 6, FAN_MAX_DRY |-> 2,
     TEMP_OFFSET |-> 2, TEMP_SIZE |-> 6,
     SWINGH_OFFSET |-> 0, SWINGH_SIZE |-> 3, SWINGH_AUTO |-> 0,
     SWINGH_MIDDLE |-> 3, SWINGH_LEFT_MAX |-> 5, SWINGV_OFFSET |-> 5,
     BUTTON_POWER |-> 19, BUTTON_FAN |-> 66, BUTTON_TEMP_DOWN |-> 67,
     BUTTON_TEMP_UP |-> 68, BUTTON_SWINGV |-> 129, BUTTON_SWINGH |-> 140,
     STATE_LENGTH |-> 43,
     HDR_MARK |-> 3300, HDR_SPACE |-> 1700, BIT_MARK |-> 400,
     ONE_SPACE |-> 1250, ZERO_SPACE |-> 500, MIN_GAP |-> 100000]

\* HitachiProtocol.__init__; previous_temp is in whole degrees
Hitachi_init ==
    [remote_state |->
        <<1, 16, 0, 64, 0, 255, 0, 204, 0, 0, 0,
          0, 0, 0, 0, 0, 0, 0, 0, 0, 0, 0,
          0, 0, 0, 0, 0, 0, 0, 1, 0, 1, 0,
          128, 0, 3, 0, 0, 0, 0, 0, 0, 0>>,
     previous_temp |-> 27]

\* HitachiProtocol._set_bits on the one-element list dst
Hitachi_set_bits(dst, offset, nbits, data) ==
    IF offset >= 8 \/ nbits = 0 THEN dst
    ELSE LET mask == Shl(1, nbits) - 1
         IN  <<BitOr(BitClear(dst[1], Shl(mask, offset)),
                     Shl(BitAnd(data, mask), offset))>>

\* HitachiProtocol._set_bit on the one-element list data
Hitachi_set_bit(data, position, on) ==
    IF on THEN <<BitOr(data[1], Shl(1, position))>>
    ELSE <<BitClear(data[1], Shl(1, position))>>

\* HitachiProtocol._get_bits
Hitachi_get_bits(data, offset, size) == BitAnd(Shr(data, offset), Shl(1, size) - 1)

\* variant: the second byte of each pair is a copy of the first
RECURSIVE Hitachi_invert_byte_pairs_copy(_, _, _)
Hitachi_invert_byte_pairs_copy(data, start, length) ==
    IF length < 2 THEN data
    ELSE Hitachi_invert_byte_pairs_copy(Put(data, start + 1, At(data, start)),
                                        start + 2, length - 2)

\* HitachiProtocol._invert_byte_pairs
\* (the loop runs i = start + 1, start + 3, ... while i < start + length)
RECURSIVE Hitachi_invert_byte_pairs(_, _, _)
Hitachi_invert_byte_pairs(data, start, length) ==
    IF length < 2 THEN data
    ELSE Hitachi_invert_byte_pairs(Put(data, start + 1, Inv8(At(data, start))),
                                   start + 2, length - 2)

\* HitachiProtocol._set_power
Hitachi_set_power(st, on) ==
    LET P == HitachiProtocol
    IN  [st EXCEPT !.remote_state =
            Put(Put(@, P.BUTTON_BYTE, P.BUTTON_POWER), P.POWER_BYTE,
                IF on THEN P.POWER_ON ELSE P.POWER_OFF)]

\* HitachiProtocol._set_temp: the temperature bits go to a temporary list
Hitachi_set_temp(st, celsius, set_previous) ==
    LET P == HitachiProtocol
        temp_val == Max2(P.TEMP_MIN, Min2(P.TEMP_MAX, celsius))
        dropped == Hitachi_set_bits(<<At(st.remote_state, P.TEMP_BYTE)>>,
                                    P.TEMP_OFFSET, P.TEMP_SIZE, temp_val)
        rs == IF st.previous_temp > temp_val
              THEN Put(st.remote_state, P.BUTTON_BYTE, P.BUTTON_TEMP_DOWN)
              ELSE IF st.previous_temp < temp_val
                   THEN Put(st.remote_state, P.BUTTON_BYTE, P.BUTTON_TEMP_UP)
                   ELSE st.remote_state
    IN  [remote_state |-> rs,
         previous_temp |-> IF set_previous THEN temp_val ELSE st.previous_temp]

\* HitachiProtocol._get_fan
Hitachi_get_fan(st) ==
    Hitachi_get_bits(At(st.remote_state, HitachiProtocol.FAN_BYTE), 4, 4)

\* HitachiProtocol._set_fan: the fan bits go to a temporary list
Hitachi_set_fan(st, speed) ==
    LET P == HitachiProtocol
        current_mode == Hitachi_get_bits(At(st.remote_state, P.MODE_BYTE), 0, 4)
        fan_max == IF current_mode = P.MODE_DRY /\ speed = P.FAN_AUTO
                   THEN P.FAN_AUTO
                   ELSE IF current_mode = P.MODE_DRY THEN P.FAN_MAX_DRY
                        ELSE P.FAN_MAX
        speed1 == IF current_mode # P.MODE_DRY /\ current_mode = P.MODE_FAN
                     /\ speed = P.FAN_AUTO
                  THEN P.FAN_MIN ELSE Max2(speed, P.FAN_MIN)
        new_speed == Min2(speed1, fan_max)
        r1 == IF new_speed # Hitachi_get_fan(st)
              THEN Put(st.remote_state, P.BUTTON_BYTE, P.BUTTON_FAN)
              ELSE st.remote_state
        dropped == Hitachi_set_bits(<<At(r1, P.FAN_BYTE)>>, 4, 4, new_speed)
        r2 == Put(r1, 9, IF new_speed = P.FAN_MIN THEN 152 ELSE 146)
    IN  [st EXCEPT !.remote_state = Put(r2, 29, 1)]

\* HitachiProtocol._set_mode: the mode bits go to a temporary list
Hitachi_set_mode(st, mode) ==
    LET P == HitachiProtocol
        s1 == IF mode = P.MODE_FAN THEN Hitachi_set_temp(st, P.TEMP_FAN, FALSE)
              ELSE st
        new_mode == IF mode = P.MODE_FAN THEN mode
                    ELSE IF mode \notin {P.MODE_HEAT, P.MODE_COOL, P.MODE_DRY}
                         THEN P.MODE_COOL ELSE mode
        dropped == Hitachi_set_bits(<<At(s1.remote_state, P.MODE_BYTE)>>, 0, 4,
                                    new_mode)
        s2 == IF new_mode # P.MODE_FAN
              THEN Hitachi_set_temp(s1, s1.previous_temp, TRUE) ELSE s1
        s3 == Hitachi_set_fan(s2, Hitachi_get_fan(s2))
    IN  Hitachi_set_power(s3, TRUE)

\* HitachiProtocol._set_swing_v: the swing bit goes to a temporary list
Hitachi_set_swing_v(st, on) ==
    LET P == HitachiProtocol
        dropped == Hitachi_set_bit(<<At(st.remote_state, P.SWINGV_BYTE)>>,
                                   P.SWINGV_OFFSET, on)
    IN  IF on THEN [st EXCEPT !.remote_state = Put(@, P.BUTTON_BYTE, P.BUTTON_SWINGV)]
        ELSE st

\* HitachiProtocol._set_swing_h: the position bits go to a temporary list
Hitachi_set_swing_h(st, position) ==
    LET P == HitachiProtocol
        pos == IF position > P.SWINGH_LEFT_MAX THEN P.SWINGH_MIDDLE ELSE position
        dropped == Hitachi_set_bits(<<At(st.remote_state, P.SWINGH_BYTE)>>,
                                    P.SWINGH_OFFSET, P.SWINGH_SIZE, pos)
    IN  [st EXCEPT !.remote_state = Put(@, P.BUTTON_BYTE, P.BUTTON_SWINGH)]

\* HitachiProtocol.generate_ir_code
Hitachi_generate_ir_code(st, c) ==
    LET P == HitachiProtocol
        mode == CASE c.hvac_mode = "cool" -> P.MODE_COOL
                  [] c.hvac_mode = "heat" -> P.MODE_HEAT
                  [] c.hvac_mode = "dry" -> P.MODE_DRY
                  [] c.hvac_mode = "fan_only" -> P.MODE_FAN
                  [] c.hvac_mode \in {"auto", "heat_cool"} -> P.MODE_AUTO
                  [] OTHER -> P.MODE_COOL
        speed == CASE c.fan_mode = "low" -> P.FAN_LOW
                   [] c.fan_mode = "medium" -> P.FAN_MEDIUM
                   [] c.fan_mode = "high" -> P.FAN_HIGH
                   [] OTHER -> P.FAN_AUTO
        s3 == IF c.hvac_mode = "off" THEN Hitachi_set_power(st, FALSE)
              ELSE Hitachi_set_fan(
                       Hitachi_set_temp(Hitachi_set_mode(st, mode),
                                        PyInt(c.target_temp), TRUE),
                       speed)
        s4 == Hitachi_set_swing_h(
                  Hitachi_set_swing_v(s3, c.swing_mode \in {"both", "vertical"}),
                  IF c.swing_mode \in {"both", "horizontal"} THEN P.SWINGH_AUTO
                  ELSE P.SWINGH_MIDDLE)
        after == [s4 EXCEPT !.remote_state =
                     Hitachi_invert_byte_pairs(
                         Put(@, P.BUTTON_BYTE, P.BUTTON_POWER), 3, P.STATE_LENGTH - 3)]
    IN  [self |-> after, out |-> [kind |-> "normal", tx |-> <<after.remote_state>>]]

\* HitachiProtocol._encode_to_pulses
Hitachi_encode_to_pulses(remote_state) ==
    LET P == HitachiProtocol
    IN  <<Mark(P.HDR_MARK), Space(P.HDR_SPACE)>>
        \o BytePulses(remote_state, TRUE, P.BIT_MARK, P.ONE_SPACE, P.ZERO_SPACE)
        \o <<Mark(P.BIT_MARK), Space(P.MIN_GAP)>>

(***************************************************************************)
(* The state machine.  A facade is constructed (Init) and then receives    *)
(* generate_ir_code calls.                                                 *)
(*   brand, model : which facade class, and its model variant              *)
(*   self         : the facade's instance attributes                       *)
(*   out          : what the last call built: its kind and its frames      *)
(*   last         : the arguments of the last call (NoCmd before the first)*)
(*   calls        : number of calls so far, saturating at MaxCalls         *)
(*   vertRun      : length of the current run of consecutive calls with    *)
(*                  swing_mode = "vertical", saturating at MaxRun          *)
(* and, for the facade the integration itself resolves (climate.py):       *)
(*   registry     : PROTOCOL_MAP, brand identifier -> facade class         *)
(*   config       : the brand identifier last asked for: the climate_brand  *)
(*                  of the config entry set up, or the class constructed   *)
(*   raised       : the exception the last entity construction or the     *)
(*                  last finished service handler raised                   *)
(*   entity       : the TuyaIRClimate object's attributes (NoEntity if the  *)
(*                  platform holds none): among them device (_device,      *)
(*                  "none" or "open"), lock (the handler whose executor    *)
(*                  job holds _lock, 0: free), listeners (the sensors      *)
(*                  whose state listener is registered) and removed        *)
(*   task         : the position of each running handler: pc, and what its *)
(*                  executor job returned; after is the set of handlers    *)
(*                  whose pulses were generated earlier and are not sent   *)
(*   loop         : the handler running on the event loop (0: none)        *)
(***************************************************************************)
\* the temperatures the calls of a behaviour use: below the range, 24 C, and
\* above the range
TempEnds(lo, hi) == {2 * (lo - TempMargin), 48, 2 * (hi + TempMargin)}

\* TempEnds and two half-degree values: just below the range, and inside it
TempHalves(lo, hi) == TempEnds(lo, hi) \cup {2 * lo - 1, 2 * hi - 1}

Commands(temps, fans, swings) ==
    {Cmd(m, t, f, s) : m \in HVACModes, t \in temps, f \in fans, s \in swings}

\* climate_protocols/__init__.py: the registry holds LGProtocol alone
PROTOCOL_MAP == [lg |-> "lg"]

Tasks == 1..MaxTasks

NoEntity == [climate_brand |-> "none"]

Idle == [pc |-> "idle", handler |-> "none", seen |-> <<>>, result |-> "none",
         after |-> {}]

\* no entity has been set up
NoHost ==
    /\ registry = PROTOCOL_MAP
    /\ config = "none"
    /\ raised = "none"
    /\ entity = NoEntity
    /\ task = [t \in Tasks |-> Idle]
    /\ loop = 0

\* a facade of brand b, model m, constructed directly
Fresh(b, m, st) ==
    /\ brand = b
    /\ model = m
    /\ self = st
    /\ last = NoCmd
    /\ out = NoOut
    /\ calls = 0
    /\ vertRun = 0
    /\ NoHost

\* generate_ir_code(c) returns: res = [self, out]
Returned(c, res) ==
    /\ self' = res.self
    /\ out' = res.out
    /\ last' = c
    /\ calls' = Min2(calls + 1, MaxCalls)
    /\ vertRun' = IF c.swing_mode = "vertical" THEN Min2(vertRun + 1, MaxRun) ELSE 0
    /\ UNCHANGED <<brand, model>>

\* one generate_ir_code(c) call on a directly constructed facade
Call(c, res) == Returned(c, res) /\ UNCHANGED hostVars

CoolixCommands ==
    Commands(TempEnds(CoolixProtocol.TEMP_MIN, CoolixProtocol.TEMP_MAX), FanModes,
             {"off", "vertical"})

CoolixGenerate ==
    /\ brand = "coolix"
    /\ \E c \in CoolixCommands : Call(c, Coolix_generate_ir_code(self, c))

WhirlpoolCommands(m) ==
    Commands(TempEnds(Whirlpool_temperature_min(m), Whirlpool_temperature_max(m)),
             {"auto", "high"}, {"off", "vertical"})

WhirlpoolGenerate ==
    /\ brand = "whirlpool"
    /\ \E c \in WhirlpoolCommands(model) :
          Call(c, Whirlpool_generate_ir_code(self, model, c))

ToshibaCommands(m) ==
    Commands(TempEnds(Toshiba_temperature_min(m), Toshiba_temperature_max(m)),
             {"auto", "quiet"}, {"off", "vertical"})

ToshibaGenerate ==
    /\ brand = "toshiba"
    /\ \E c \in ToshibaCommands(model) :
          Call(c, Toshiba_generate_ir_code(self, model, c))

LGCommands ==
    Commands(TempHalves(LGProtocol.TEMP_MIN, LGProtocol.TEMP_MAX), {"auto", "high"},
             {"off", "vertical"})

LGGenerate ==
    /\ brand = "lg"
    /\ \E c \in LGCommands : Call(c, LG_generate_ir_code(self, c))

\* "turbo" is a fan value no facade class knows
MideaCommands ==
    Commands(TempHalves(MideaProtocol.TEMPC_MIN, MideaProtocol.TEMPC_MAX),
             {"auto", "low", "high", "turbo"}, {"off", "vertical"})

MideaGenerate ==
    /\ brand = "midea"
    /\ \E c \in MideaCommands : Call(c, Midea_generate_ir_code(self, c))

Normal(st, frame) == [self |-> st, out |-> [kind |-> "normal", tx |-> <<frame>>]]

BalluCommands ==
    Commands(TempHalves(BalluProtocol.TEMP_MIN, BalluProtocol.TEMP_MAX),
             {"auto", "high"}, {"off", "vertical", "both"})

BalluGenerate ==
    /\ brand = "ballu"
    /\ \E c \in BalluCommands : Call(c, Normal(self, Ballu_generate_ir_code(c)))

\* TempHalves and 23.5 C
TCLCommands ==
    Commands(TempHalves(TCLProtocol.TEMP_MIN, TCLProtocol.TEMP_MAX) \cup {47},
             {"auto", "high"}, {"off", "vertical"})

TCLGenerate ==
    /\ brand = "tcl"
    /\ \E c \in TCLCommands : Call(c, Normal(self, TCL_generate_ir_code(c)))

MitsubishiCommands ==
    Commands(TempHalves(MitsubishiProtocol.TEMP_MIN, MitsubishiProtocol.TEMP_MAX),
             {"auto", "high"}, {"off", "vertical", "both"})

MitsubishiGenerate ==
    /\ brand = "mitsubishi"
    /\ \E c \in MitsubishiCommands :
          Call(c, Normal(self, Mitsubishi_generate_ir_code(self, c)))

DaikinCommands ==
    Commands(TempHalves(DaikinProtocol.TEMP_MIN, DaikinProtocol.TEMP_MAX),
             {"auto", "quiet"}, {"off", "both"})

DaikinGenerate ==
    /\ brand = "daikin"
    /\ \E c \in DaikinCommands : Call(c, Normal(self, Daikin_generate_ir_code(c)))

FujitsuCommands ==
    Commands(TempHalves(FujitsuProtocol.TEMP_MIN, FujitsuProtocol.TEMP_MAX),
             {"auto", "quiet"}, {"off", "horizontal"})

FujitsuGenerate ==
    /\ brand = "fujitsu"
    /\ \E c \in FujitsuCommands : Call(c, Fujitsu_generate_ir_code(self, c))

GeneralCommands ==
    Commands(TempHalves(GeneralProtocol.TEMP_MIN, GeneralProtocol.TEMP_MAX),
             {"auto", "low"}, {"off", "vertical"})

GeneralGenerate ==
    /\ brand = "general"
    /\ \E c \in GeneralCommands :
          Call(c, Normal(self, General_generate_ir_code(self, c)))

GreeCommands ==
    Commands(TempHalves(GreeProtocol.TEMP_MIN, GreeProtocol.TEMP_MAX),
             {"auto", "high"}, {"off", "both"})

GreeGenerate ==
    /\ brand = "gree"
    /\ \E c \in GreeCommands : Call(c, Normal(self, Gree_generate_ir_code(self, c)))

HitachiCommands ==
    Commands(TempHalves(HitachiProtocol.TEMP_MIN, HitachiProtocol.TEMP_MAX),
             {"auto", "low"}, {"off", "vertical"})

HitachiGenerate ==
    /\ brand = "hitachi"
    /\ \E c \in HitachiCommands : Call(c, Hitachi_generate_ir_code(self, c))

\* the pulse list a call that built o returned
Pulses(b, m, o) ==
    CASE b = "coolix" -> Coolix_encode_coolix_command(o.tx[1])
      [] b = "whirlpool" -> Whirlpool_encode_to_pulses(o.tx[1])
      [] b = "toshiba" -> Toshiba_pulses(o.tx)
      [] b = "lg" -> LG_encode_to_pulses(o.tx[1])
      [] b = "midea" -> Midea_encode_midea_data(o.tx[1])
      [] b = "ballu" -> Ballu_encode_to_pulses(o.tx[1])
      [] b = "tcl" -> TCL_encode_to_pulses(o.tx[1])
      [] b = "mitsubishi" -> Mitsubishi_encode_to_pulses(o.tx[1])
      [] b = "daikin" -> Daikin_encode_to_pulses(o.tx[1])
      [] b = "fujitsu" -> Fujitsu_encode_to_pulses(o.tx[1])
      [] b = "general" -> General_encode_nec_frame(o.tx[1])
      [] b = "gree" -> Gree_encode_to_pulses(Gree_init(m), o.tx[1])
      [] b = "hitachi" -> Hitachi_encode_to_pulses(o.tx[1])

Ret == Pulses(brand, model, out)

\* facade.generate_ir_code(c) on the facade of brand b, model m, in state st
generate_ir_code(b, m, st, c) ==
    CASE b = "coolix" -> Coolix_generate_ir_code(st, c)
      [] b = "whirlpool" -> Whirlpool_generate_ir_code(st, m, c)
      [] b = "toshiba" -> Toshiba_generate_ir_code(st, m, c)
      [] b = "lg" -> LG_generate_ir_code(st, c)
      [] b = "midea" -> Midea_generate_ir_code(st, c)
      [] b = "ballu" -> Normal(st, Ballu_generate_ir_code(c))
      [] b = "tcl" -> Normal(st, TCL_generate_ir_code(c))
      [] b = "mitsubishi" -> Normal(st, Mitsubishi_generate_ir_code(st, c))
      [] b = "daikin" -> Normal(st, Daikin_generate_ir_code(c))
      [] b = "fujitsu" -> Fujitsu_generate_ir_code(st, c)
      [] b = "general" -> Normal(st, General_generate_ir_code(st, c))
      [] b = "gree" -> Normal(st, Gree_generate_ir_code(st, c))
      [] b = "hitachi" -> Hitachi_generate_ir_code(st, c)

\* facade.temperature_min: base.py reads the class attribute TEMP_MIN; Gree,
\* Toshiba and Whirlpool return the value their constructor stored, Midea
\* its Celsius bound (fahrenheit_mode is False)
temperature_min(b, m) ==
    CASE b = "coolix" -> CoolixProtocol.TEMP_MIN
      [] b = "whirlpool" -> Whirlpool_temperature_min(m)
      [] b = "toshiba" -> Toshiba_temperature_min(m)
      [] b = "lg" -> LGProtocol.TEMP_MIN
      [] b = "midea" -> MideaProtocol.TEMPC_MIN
      [] b = "ballu" -> BalluProtocol.TEMP_MIN
      [] b = "tcl" -> TCLProtocol.TEMP_MIN
      [] b = "mitsubishi" -> MitsubishiProtocol.TEMP_MIN
      [] b = "daikin" -> DaikinProtocol.TEMP_MIN
      [] b = "fujitsu" -> FujitsuProtocol.TEMP_MIN
      [] b = "general" -> GeneralProtocol.TEMP_MIN
      [] b = "gree" -> GreeProtocol.TEMP_MIN
      [] b = "hitachi" -> HitachiProtocol.TEMP_MIN

\* facade.temperature_max
temperature_max(b, m) ==
    CASE b = "coolix" -> CoolixProtocol.TEMP_MAX
      [] b = "whirlpool" -> Whirlpool_temperature_max(m)
      [] b = "toshiba" -> Toshiba_temperature_max(m)
      [] b = "lg" -> LGProtocol.TEMP_MAX
      [] b = "midea" -> MideaProtocol.TEMPC_MAX
      [] b = "ballu" -> BalluProtocol.TEMP_MAX
      [] b = "tcl" -> TCLProtocol.TEMP_MAX
      [] b = "mitsubishi" -> MitsubishiProtocol.TEMP_MAX
      [] b = "daikin" -> DaikinProtocol.TEMP_MAX
      [] b = "fujitsu" -> FujitsuProtocol.TEMP_MAX
      [] b = "general" -> GeneralProtocol.TEMP_MAX
      [] b = "gree" -> GreeProtocol.TEMP_MAX
      [] b = "hitachi" -> HitachiProtocol.TEMP_MAX

InitCoolix == Fresh("coolix", "", Coolix_init)

NextCoolix == CoolixGenerate

SpecCoolix == InitCoolix /\ [][NextCoolix]_vars

InitWhirlpool == \E m \in WhirlpoolModels : Fresh("whirlpool", m, Whirlpool_init)

NextWhirlpool == WhirlpoolGenerate

SpecWhirlpool == InitWhirlpool /\ [][NextWhirlpool]_vars

InitToshiba == \E m \in ToshibaModels : Fresh("toshiba", m, Toshiba_init)

NextToshiba == ToshibaGenerate

SpecToshiba == InitToshiba /\ [][NextToshiba]_vars

InitLG == Fresh("lg", "", LG_init)

NextLG == LGGenerate

SpecLG == InitLG /\ [][NextLG]_vars

InitMidea == Fresh("midea", "", Midea_init)

NextMidea == MideaGenerate

SpecMidea == InitMidea /\ [][NextMidea]_vars

\* the three facades with an additive checksum
InitSum ==
    \/ Fresh("ballu", "", Stateless_init)
    \/ Fresh("tcl", "", Stateless_init)
    \/ Fresh("mitsubishi", "", Mitsubishi_init)

NextSum == BalluGenerate \/ TCLGenerate \/ MitsubishiGenerate

SpecSum == InitSum /\ [][NextSum]_vars

InitGeneral == Fresh("general", "", General_init)

NextGeneral == GeneralGenerate

SpecGeneral == InitGeneral /\ [][NextGeneral]_vars

InitFujitsu == Fresh("fujitsu", "", Fujitsu_init)

NextFujitsu == FujitsuGenerate

SpecFujitsu == InitFujitsu /\ [][NextFujitsu]_vars

InitHitachi == Fresh("hitachi", "", Hitachi_init)

NextHitachi == HitachiGenerate

SpecHitachi == InitHitachi /\ [][NextHitachi]_vars

\* every facade that can be constructed, in every model variant.  The
\* constructors of WhynterProtocol and YashimaProtocol raise AttributeError
\* (base.py assigns supported_hvac_modes, which those classes redefine as a
\* read-only property), so no object of these two classes ever exists.
Init ==
    \/ InitCoolix
    \/ InitWhirlpool
    \/ InitToshiba
    \/ InitLG
    \/ InitMidea
    \/ InitSum
    \/ Fresh("daikin", "", Daikin_init)
    \/ Fresh("fujitsu", "", Fujitsu_init)
    \/ InitGeneral
    \/ \E m \in GreeModels : Fresh("gree", m, Gree_init(m))
    \/ InitHitachi

Next ==
    \/ CoolixGenerate
    \/ WhirlpoolGenerate
    \/ ToshibaGenerate
    \/ LGGenerate
    \/ MideaGenerate
    \/ BalluGenerate
    \/ TCLGenerate
    \/ MitsubishiGenerate
    \/ DaikinGenerate
    \/ FujitsuGenerate
    \/ GeneralGenerate
    \/ GreeGenerate
    \/ HitachiGenerate

Spec == Init /\ [][Next]_vars

(***************************************************************************)
(* Construction.  Every facade class calls ClimateIRProtocol.__init__      *)
(* first, which assigns the three supported_* attributes.                  *)
(***************************************************************************)
NoSelf == [class |-> "none"]

\* no facade object exists
NoFacade ==
    /\ brand = "none"
    /\ model = ""
    /\ self = NoSelf
    /\ last = NoCmd
    /\ out = NoOut
    /\ calls = 0
    /\ vertRun = 0

\* the attributes a class defines as properties without a setter
\* (whynter.py 211-234, yashima.py 252-279)
ReadOnlyProperties(b) ==
    IF b \in {"whynter", "yashima"}
    THEN {"supported_hvac_modes", "supported_fan_modes", "supported_swing_modes"}
    ELSE {}

\* ClimateIRProtocol.__init__ on an object of class b: what it raises
Base_init(b) ==
    IF ReadOnlyProperties(b)
         \cap {"supported_hvac_modes", "supported_fan_modes", "supported_swing_modes"}
         # {}
    THEN "AttributeError" ELSE "none"

\* the attributes the constructor of class b, model m, leaves
facade_init(b, m) ==
    CASE b = "coolix" -> Coolix_init
      [] b = "whirlpool" -> Whirlpool_init
      [] b = "toshiba" -> Toshiba_init
      [] b = "lg" -> LG_init
      [] b = "midea" -> Midea_init
      [] b \in {"ballu", "tcl"} -> Stateless_init
      [] b = "mitsubishi" -> Mitsubishi_init
      [] b = "daikin" -> Daikin_init
      [] b = "fujitsu" -> Fujitsu_init
      [] b = "general" -> General_init
      [] b = "gree" -> Gree_init(m)
      [] b = "hitachi" -> Hitachi_init

\* the model variants a class can be constructed in
ModelsOf(b) ==
    CASE b = "whirlpool" -> WhirlpoolModels
      [] b = "toshiba" -> ToshibaModels
      [] b = "gree" -> GreeModels
      [] OTHER -> {""}

\* XProtocol(model): one of the 15 classes of climate_protocols/ is
\* instantiated, while no facade exists; config records the class asked for
Construct ==
    /\ brand = "none"
    /\ entity = NoEntity
    /\ \E b \in {"lg", "mitsubishi", "daikin", "toshiba", "midea", "gree", "fujitsu",
                  "tcl", "ballu", "coolix", "hitachi", "whirlpool", "whynter",
                  "yashima", "general"} :
          \E m \in ModelsOf(b) :
             /\ config' = b
             /\ raised' = Base_init(b)
             /\ IF Base_init(b) = "none"
                THEN brand' = b /\ model' = m /\ self' = facade_init(b, m)
                ELSE UNCHANGED <<brand, model, self>>
    /\ UNCHANGED <<last, out, calls, vertRun, registry, entity, task, loop>>

InitClasses == NoFacade /\ NoHost

NextClasses == Construct \/ Next

SpecClasses == InitClasses /\ [][NextClasses]_vars

(***************************************************************************)
(* The integration (climate.py, config_flow.py, const.py,                  *)
(* climate_protocols/__init__.py).  The platform builds one TuyaIRClimate  *)
(* per config entry; its constructor resolves the facade through           *)
(* get_protocol.  The service handlers are coroutines on Home Assistant's  *)
(* event loop: a handler runs until it awaits the executor job that sends  *)
(* the pulses, and only then can another handler run.                      *)
(***************************************************************************)
\* const.py: SUPPORTED_BRANDS
SUPPORTED_BRANDS ==
    {"lg", "mitsubishi", "daikin", "toshiba", "midea", "gree", "fujitsu", "tcl",
     "ballu", "coolix", "hitachi", "whirlpool", "whynter", "yashima", "general"}

\* config_flow.py: the keys of brand_list, the options of the brand step
brand_list == {"lg", "mitsubishi", "samsung", "daikin", "general"}

\* the brand identifiers a config entry is set up with: the offered ones and
\* one nobody offers
ConfiguredBrands == SUPPORTED_BRANDS \cup brand_list \cup {"carrier"}

\* variant: an identifier the registry does not hold gets the LG facade
get_protocol_default(reg, b) == [raised |-> "none", brand |-> "lg", self |-> LG_init]

\* get_protocol(brand): PROTOCOL_MAP[brand]() or ValueError; LGProtocol is
\* the only class the registry names
get_protocol(reg, b) ==
    IF b \in DOMAIN reg
    THEN [raised |-> "none", brand |-> reg[b],
          self |-> CASE reg[b] = "lg" -> LG_init]
    ELSE [raised |-> "ValueError", brand |-> "none", self |-> NoSelf]

\* the sensors a config entry names: none, or a temperature and a humidity
\* sensor
SensorConfigs == {{}, {"temperature", "humidity"}}

\* TuyaIRClimate.__init__: the defaults used when nothing is restored; no
\* device handle, no listener, the lock free
TuyaIRClimate_init(b, sensors) ==
    [climate_brand |-> b, hvac_mode |-> "off", target_temperature |-> 48,
     fan_mode |-> "auto", swing_mode |-> "off", added |-> FALSE,
     available |-> FALSE, device |-> "none", lock |-> 0, sensors |-> sensors,
     listeners |-> {}, removed |-> FALSE]

\* variant: the handle is closed but not cleared
deinit_device_keeps(e) == e

\* TuyaIRClimate._deinit_device: close the handle and clear it
deinit_device(e) == [e EXCEPT !.device = "none"]

\* how the body of an executor job can end: _send_ir_command_sync sends the
\* pulses (ok), finds no connection, gets a result containing Error, or
\* meets any other exception; _update_availability reads a status (ok),
\* reads None, or meets an exception
JobOutcomes(handler) ==
    IF handler = "update" THEN {"ok", "status_none", "exception"}
    ELSE {"ok", "no_connection", "error_result", "exception"}

\* TuyaIRClimate._update_availability, the body under the lock
update_availability(e, outcome) ==
    CASE outcome = "ok" -> [e EXCEPT !.device = "open", !.available = TRUE]
      [] outcome = "status_none" -> [e EXCEPT !.device = "open", !.available = FALSE]
      [] OTHER -> deinit_device([e EXCEPT !.available = FALSE])

\* TuyaIRClimate._send_ir_command_sync, the body under the lock: every
\* failure passes through the except branch, which calls _deinit_device
\* before it raises
send_ir_command_sync(e, outcome) ==
    IF outcome = "ok" THEN [e EXCEPT !.device = "open"] ELSE deinit_device(e)

\* async_setup_platform: TuyaIRClimate(climate_brand = b), whose constructor
\* calls get_protocol(b); an exception leaves the platform without entity.
\* The availability check is awaited before the entity is handed over.
SetupEntry ==
    /\ entity = NoEntity
    /\ \E b \in ConfiguredBrands, sensors \in SensorConfigs,
          ok \in JobOutcomes("update") :
          LET r == get_protocol(registry, b)
          IN  /\ config' = b
              /\ raised' = r.raised
              /\ brand' = r.brand
              /\ self' = r.self
              /\ entity' = IF r.raised = "none"
                            THEN update_availability(TuyaIRClimate_init(b, sensors), ok)
                            ELSE NoEntity
    /\ model' = ""
    /\ last' = NoCmd
    /\ out' = NoOut
    /\ calls' = 0
    /\ vertRun' = 0
    /\ UNCHANGED <<registry, task, loop>>

\* the last states async_get_last_state hands back: None, or a stored state
\* with its attributes
OldStates ==
    {[none |-> TRUE]}
    \cup {[none |-> FALSE, state |-> m, temperature |-> 48, fan_mode |-> "auto",
           swing_mode |-> s] : m \in {"off", "cool"}, s \in {"off", "vertical"}}

\* async_added_to_hass -> _restore_state, then _setup_sensor_listeners, which
\* registers one listener per configured sensor
AddedToHass ==
    /\ entity # NoEntity
    /\ ~entity.added
    /\ \E old \in OldStates :
          IF old.none
          THEN /\ entity' = [entity EXCEPT !.added = TRUE,
                                           !.listeners = entity.sensors]
               /\ UNCHANGED self
          ELSE /\ entity' = [entity EXCEPT !.added = TRUE,
                                           !.listeners = entity.sensors,
                                           !.hvac_mode = old.state,
                                           !.target_temperature = old.temperature,
                                           !.fan_mode = old.fan_mode,
                                           !.swing_mode = old.swing_mode]
               \* hasattr(self._protocol, 'swing_active') holds for LGProtocol
               /\ self' = [self EXCEPT !.swing_active = (old.swing_mode = "vertical")]
    /\ UNCHANGED <<brand, model, last, out, calls, vertRun, registry, config, raised,
                   task, loop>>

\* async_will_remove_from_hass.  The class body defines the method twice;
\* the later definition (lines 587-589) is the one the class keeps: it calls
\* _deinit_device, on the event loop and without taking _lock, and does not
\* touch the listeners.
WillRemove ==
    /\ entity # NoEntity
    /\ entity.added
    /\ ~entity.removed
    /\ loop = 0
    /\ entity' = [deinit_device(entity) EXCEPT !.removed = TRUE]
    /\ UNCHANGED <<facadeVars, registry, config, raised, task, loop>>

\* the removed entity is let go once its handlers are over; the facade goes
\* with it
RemoveEntity ==
    /\ entity # NoEntity
    /\ entity.removed
    /\ \A t \in Tasks : task[t].pc = "idle"
    /\ entity' = NoEntity
    /\ brand' = "none"
    /\ model' = ""
    /\ self' = NoSelf
    /\ last' = NoCmd
    /\ out' = NoOut
    /\ calls' = 0
    /\ vertRun' = 0
    /\ UNCHANGED <<registry, config, raised, task, loop>>

\* variant: every handler runs on a thread of its own
Scheduled_threads(t) == TRUE

\* the event loop: a new handler, or one whose executor job is over, runs
\* only when no handler is running, and a running handler goes on until it
\* awaits the executor job (_send_climate_command has no await before
\* generate_ir_code returns)
Scheduled(t) ==
    IF task[t].pc \in {"idle", "done"} THEN loop = 0 ELSE loop = t

\* what the service calls carry
HandlerInputs ==
    {<<"target_temperature", 48>>,
     <<"hvac_mode", "off">>, <<"hvac_mode", "cool">>, <<"hvac_mode", "heat">>,
     <<"fan_mode", "auto">>,
     <<"swing_mode", "off">>, <<"swing_mode", "vertical">>}

\* async_set_temperature / async_set_hvac_mode / async_set_fan_mode /
\* async_set_swing_mode up to the call of _send_climate_command: the
\* attribute is stored, and hvac_mode off clears the facade's swing_active
SetAttribute(t) ==
    /\ entity # NoEntity
    /\ entity.added
    /\ ~entity.removed
    /\ task[t].pc = "idle"
    /\ Scheduled(t)
    /\ \E in \in HandlerInputs :
          /\ entity' = [entity EXCEPT ![in[1]] = in[2]]
          /\ task' = [task EXCEPT ![t] = [Idle EXCEPT !.pc = "call",
                                                      !.handler = in[1]]]
          /\ self' = IF in = <<"hvac_mode", "off">>
                      THEN [self EXCEPT !.swing_active = FALSE] ELSE self
    /\ loop' = t
    /\ UNCHANGED <<brand, model, last, out, calls, vertRun, registry, config, raised>>

\* async_update: the availability check is handed to the executor at once
UpdateBegin(t) ==
    /\ entity # NoEntity
    /\ entity.added
    /\ ~entity.removed
    /\ task[t].pc = "idle"
    /\ Scheduled(t)
    /\ task' = [task EXCEPT ![t] = [Idle EXCEPT !.pc = "send", !.handler = "update"]]
    /\ UNCHANGED <<facadeVars, registry, config, raised, entity, loop>>

\* _send_climate_command enters self._protocol.generate_ir_code, which reads
\* the facade's attributes
GenerateBegin(t) ==
    /\ task[t].pc = "call"
    /\ Scheduled(t)
    /\ task' = [task EXCEPT ![t].pc = "gen", ![t].seen = <<self>>]
    /\ UNCHANGED <<facadeVars, registry, config, raised, entity, loop>>

\* the handlers whose pulses were generated and are not yet through the
\* executor job that sends them
Undelivered == {u \in Tasks : task[u].pc \in {"send", "job"} /\ task[u].handler # "update"}

\* generate_ir_code stores the facade's new attributes and returns the
\* pulses; _send_ir_command then awaits the executor job.  The handler notes
\* whose pulses were generated before its own and are still to be sent.
GenerateEnd(t) ==
    /\ task[t].pc = "gen"
    /\ Scheduled(t)
    /\ LET c == Cmd(entity.hvac_mode, entity.target_temperature, entity.fan_mode,
                    entity.swing_mode)
       IN  Returned(c, generate_ir_code(brand, model, task[t].seen[1], c))
    /\ task' = [task EXCEPT ![t].pc = "send", ![t].seen = <<>>,
                            ![t].after = Undelivered]
    /\ loop' = 0
    /\ UNCHANGED <<registry, config, raised, entity>>

\* an executor thread starts _send_ir_command_sync or _update_availability:
\* it takes _lock.  The pool has several threads, and which of the waiting
\* jobs gets a free lock is not determined.
JobBegin(t) ==
    /\ task[t].pc = "send"
    /\ entity.lock = 0
    /\ entity' = [entity EXCEPT !.lock = t]
    /\ task' = [task EXCEPT ![t].pc = "job"]
    /\ UNCHANGED <<facadeVars, registry, config, raised, loop>>

\* the body under the lock and its release: the job returns, or raises
\* HomeAssistantError, to the handler that awaits it
JobEnd(t) ==
    /\ task[t].pc = "job"
    /\ entity.lock = t
    /\ \E outcome \in JobOutcomes(task[t].handler) :
          /\ entity' = [(IF task[t].handler = "update"
                         THEN update_availability(entity, outcome)
                         ELSE send_ir_command_sync(entity, outcome))
                        EXCEPT !.lock = 0]
          /\ task' = [u \in Tasks |->
                        IF u = t
                        THEN [task[t] EXCEPT !.pc = "done", !.result = outcome]
                        ELSE [task[u] EXCEPT !.after = @ \ {t}]]
    /\ UNCHANGED <<facadeVars, registry, config, raised, loop>>

\* the executor job is over and the handler goes on: _send_ir_command and
\* _send_climate_command set _available, and on failure raise
\* HomeAssistantError to the caller; async_set_swing_mode then copies the
\* facade's swing_active into _swing_mode.  async_update just returns.
SendDone(t) ==
    /\ task[t].pc = "done"
    /\ Scheduled(t)
    /\ IF task[t].handler = "update"
       THEN UNCHANGED <<entity, raised>>
       ELSE /\ entity' = [entity EXCEPT
                             !.available = (task[t].result = "ok"),
                             !.swing_mode =
                                 IF task[t].result = "ok" /\ task[t].handler = "swing_mode"
                                 THEN (IF self.swing_active THEN "vertical" ELSE "off")
                                 ELSE @]
            /\ raised' = IF task[t].result = "ok" THEN "none"
                          ELSE "HomeAssistantError"
    /\ task' = [task EXCEPT ![t] = Idle]
    /\ UNCHANGED <<facadeVars, registry, config, loop>>

InitEntity == NoFacade /\ NoHost

NextEntity ==
    \/ SetupEntry
    \/ AddedToHass
    \/ WillRemove
    \/ RemoveEntity
    \/ \E t \in Tasks : SetAttribute(t)
    \/ \E t \in Tasks : UpdateBegin(t)
    \/ \E t \in Tasks : GenerateBegin(t)
    \/ \E t \in Tasks : GenerateEnd(t)
    \/ \E t \in Tasks : JobBegin(t)
    \/ \E t \in Tasks : JobEnd(t)
    \/ \E t \in Tasks : SendDone(t)

SpecEntity == InitEntity /\ [][NextEntity]_vars

(***************************************************************************)
(* Coolix swing toggle (C1, C2, C3).                                       *)
(***************************************************************************)
CoolixSwingFrame(o) == o.tx = <<CoolixProtocol.COOLIX_SWING>>

\* the word lines 92-139 build for command c: COOLIX_OFF for off, otherwise
\* the mode/temperature/fan word
CoolixNormalWord(c) ==
    IF c.hvac_mode = "off" THEN CoolixProtocol.COOLIX_OFF ELSE Coolix_remote_state(c)

\* C1: on a fresh Coolix facade the first call, made with swing=vertical,
\* returns exactly the pulses of the COOLIX_SWING word 0xB26BE0; and the
\* immediately following identical call returns the pulses of the normal
\* word of that command (mode/temperature/fan; COOLIX_OFF for hvac_mode off)
\* and not the swing frame.
C1_FirstVerticalSwingThenNormal ==
    /\ [](brand = "coolix" /\ calls = 1 /\ last.swing_mode = "vertical"
            => /\ out.tx = <<11693024>>
               /\ Ret = Coolix_encode_coolix_command(11693024))
    /\ [][brand = "coolix" /\ calls = 1 /\ last.swing_mode = "vertical" /\ last' = last
            => /\ ~CoolixSwingFrame(out')
               /\ out'.tx = <<CoolixNormalWord(last)>>
               /\ Ret' = Coolix_encode_coolix_command(CoolixNormalWord(last))]_vars

\* two swing=vertical calls on a fresh facade, the second one answered with a
\* mode/temperature/fan frame
C1_Witness ==
    /\ brand = "coolix" /\ calls = 2 /\ vertRun = 2
    /\ last.hvac_mode = "cool"
    /\ out.kind = "normal"
    /\ ~CoolixSwingFrame(out)

\* C2: the swing-toggle frame is emitted only by a call with swing=vertical
\* whose previous call had swing=off (or that is the first call); repeated
\* swing=vertical calls emit no further swing-toggle frame.
C2_SwingFrameOnlyOnOffToVertical ==
    [][brand = "coolix" /\ CoolixSwingFrame(out')
        => /\ last'.swing_mode = "vertical"
           /\ (last = NoCmd \/ last.swing_mode = "off")]_vars

\* C3: after two swing=vertical calls in a row, a call with swing=off emits
\* the swing-toggle frame again and leaves the tracked swing state at its
\* baseline.
C3_OffAfterTwoVerticalTogglesBack ==
    [][brand = "coolix" /\ calls = 2 /\ vertRun = 2 /\ last'.swing_mode = "off"
        => /\ CoolixSwingFrame(out')
           /\ self' = Coolix_init]_vars

(***************************************************************************)
(* Whirlpool power toggle (C4).                                            *)
(***************************************************************************)
\* whether a call with command c asks for power (off before the first call)
PowerOf(c) == c # NoCmd /\ c.hvac_mode # "off"

\* C4: a Whirlpool frame carries the power toggle (byte 2, bit 0x04) exactly
\* when the call's power state (hvac_mode # off) differs from the previous
\* call's (off before the first call); after every call powered_on_assumed
\* equals the call's power state; so of two consecutive cool calls only the
\* first can carry the toggle.
C4_PowerToggleOnChange ==
    [][brand = "whirlpool"
        => /\ (BitAnd(At(out'.tx[1], 2), 4) = 4) <=> (PowerOf(last') # PowerOf(last))
           /\ self'.powered_on_assumed = PowerOf(last')
           /\ (PowerOf(last) /\ last'.hvac_mode = "cool"
                 => BitAnd(At(out'.tx[1], 2), 4) = 0)]_vars

\* the second of two consecutive cool calls on a fresh facade: no toggle bit
C4_Witness ==
    /\ brand = "whirlpool" /\ calls = 2
    /\ last.hvac_mode = "cool"
    /\ self.powered_on_assumed
    /\ BitAnd(At(out.tx[1], 2), 4) = 0

(***************************************************************************)
(* Toshiba RAS-2819T swing-only toggle (C5).                               *)
(***************************************************************************)
\* the call returned the swing toggle 0xC23D6B94E01F alone
ToshibaSwingToggle(o) == o.tx = <<DataPart(<<194, 61, 107, 148, 224, 31>>, 1)>>

\* C5: on Toshiba RAS-2819T, after a call that emits the swing-only toggle
\* frame the tracked last swing mode equals that call's swing mode, so an
\* immediately following identical call does not emit the toggle again.
C5_ToggleRecordsSwingMode ==
    /\ [][brand = "toshiba" /\ model = "ras_2819t" /\ ToshibaSwingToggle(out')
            => self'.last_swing_mode = last'.swing_mode]_vars
    /\ [][brand = "toshiba" /\ model = "ras_2819t" /\ ToshibaSwingToggle(out)
          /\ last' = last
            => ~ToshibaSwingToggle(out')]_vars

(***************************************************************************)
(* LG word layout (C10).                                                   *)
(***************************************************************************)
\* nibble i of a word (nibble 0 = bits 0-3)
Nibble(w, i) == (w \div (16 ^ i)) % 16

\* C10: every 28-bit LG word has bits 24-27 equal to 0x8 and bits 0-3 equal
\* to the sum of nibbles 1..7 mod 16; and the normal (non-swing) word of a
\* call in a temperature-bearing mode (cool, heat, heat_cool, auto, dry) has
\* bits 8-11 equal to clamp(int(target_temp), 18, 30) - 15.
C10_LGWordLayout ==
    brand = "lg" /\ out # NoOut =>
        LET w == out.tx[1]
        IN  /\ w < 2 ^ 28
            /\ Nibble(w, 6) = 8
            /\ Nibble(w, 0) = (Nibble(w, 1) + Nibble(w, 2) + Nibble(w, 3) + Nibble(w, 4)
                               + Nibble(w, 5) + Nibble(w, 6) + Nibble(w, 7)) % 16
            /\ Ret = LG_encode_to_pulses(w)
            /\ (out.kind = "normal"
                /\ last.hvac_mode \in {"cool", "heat", "heat_cool", "auto", "dry"}
                  => Nibble(w, 2) = Max2(18, Min2(30, last.target_temp \div 2)) - 15)

\* a normal frame in heat mode for a half-degree temperature below the range
C10_Witness ==
    /\ brand = "lg" /\ out.kind = "normal"
    /\ last.hvac_mode = "heat" /\ last.target_temp = 35
    /\ Nibble(out.tx[1], 2) = 3

(***************************************************************************)
(* Midea checksum (C8).                                                    *)
(***************************************************************************)
\* C8: in every 5-byte Midea frame, control or swing toggle, byte 4 equals
\* the XOR of bytes 0..3.
C8_MideaXorChecksum ==
    brand = "midea" /\ out # NoOut =>
        LET data == out.tx[1]
        IN  /\ Len(data) = 5
            /\ At(data, 4) = BitXor(BitXor(At(data, 0), At(data, 1)),
                                    BitXor(At(data, 2), At(data, 3)))

(***************************************************************************)
(* Additive checksums (C7).                                                *)
(***************************************************************************)
\* the n bytes read back, LSB first, from the pulse list p, whose first data
\* mark is p[off + 1]; a space of duration one is a 1 bit
SentBytes(p, off, n, one) ==
    [k \in 1..n |->
        LET Bit(j) == IF p[off + 16 * (k - 1) + 2 * j + 2][2] = one THEN 2 ^ j ELSE 0
        IN  Bit(0) + Bit(1) + Bit(2) + Bit(3) + Bit(4) + Bit(5) + Bit(6) + Bit(7)]

\* the last byte of frame f is the sum of the bytes before it, mod 256
TrailingSum(f) == f[Len(f)] = SumSeq(SubSeq(f, 1, Len(f) - 1)) % 256

\* C7: in the frame a call transmits, the trailing checksum byte is the sum
\* of all preceding bytes mod 256: byte 12 of Ballu's 13 bytes, byte 13 of
\* TCL's 14 bytes, byte 17 of Mitsubishi's 18 bytes (in both repeats); and
\* Ballu's byte 0 is always 0xC3.
C7_TrailingSumChecksum ==
    /\ brand = "ballu" /\ out # NoOut =>
         LET f == SentBytes(Ret, 2, 13, 1675)
         IN  f = out.tx[1] /\ Len(Ret) = 2 + 16 * 13 + 1 /\ TrailingSum(f) /\ f[1] = 195
    /\ brand = "tcl" /\ out # NoOut =>
         LET f == SentBytes(Ret, 2, 14, 1100)
         IN  f = out.tx[1] /\ Len(Ret) = 2 + 16 * 14 + 2 /\ TrailingSum(f)
    /\ brand = "mitsubishi" /\ out # NoOut =>
         LET f == SentBytes(Ret, 2, 18, 1250)
             g == SentBytes(Ret, 2 + 16 * 18 + 2 + 2, 18, 1250)
         IN  f = out.tx[1] /\ g = f /\ Len(Ret) = 2 * (2 + 16 * 18) + 2 + 1
             /\ TrailingSum(f)

\* a Ballu frame whose byte sum exceeds one byte, so that the reduction mod
\* 256 matters
C7_Witness ==
    /\ brand = "ballu" /\ out # NoOut
    /\ SumSeq(SubSeq(out.tx[1], 1, 12)) > 255
    /\ out.tx[1][13] = SumSeq(SubSeq(out.tx[1], 1, 12)) - 256

\* C6: for every brand and model and every command, from the same state
\* before the call and with the other fields equal, a target temperature
\* below temperature_min returns the pulse sequence temperature_min returns,
\* and one above temperature_max the sequence temperature_max returns.
C6_OutOfRangeTempEncodesAsBoundary ==
    [][\A b \in {brand}, m \in {model}, before \in {self}, c \in {last'},
          returned \in {out'} :
          LET lo == 2 * temperature_min(b, m)
              hi == 2 * temperature_max(b, m)
              Boundary(t) ==
                  Pulses(b, m, generate_ir_code(b, m, before,
                                                [c EXCEPT !.target_temp = t]).out)
          IN  /\ c.target_temp < lo => Pulses(b, m, returned) = Boundary(lo)
              /\ c.target_temp > hi => Pulses(b, m, returned) = Boundary(hi)]_vars

\* C9: every pulse sequence a generate_ir_code call returned, for any brand
\* and after any sequence of calls, is non-empty, begins with a mark, never
\* has two marks or two spaces next to each other, and holds only strictly
\* positive integers.
C9_PulsesAlternateFromMark ==
    calls > 0 =>
        LET pulses == Ret
        IN  /\ Len(pulses) > 0
            /\ pulses[1][1] = "m"
            /\ \A i \in 1..(Len(pulses) - 1) : pulses[i][1] # pulses[i + 1][1]
            /\ \A i \in 1..Len(pulses) : pulses[i][2] \in Nat /\ pulses[i][2] > 0

\* a three-block Daikin frame returned by a second or later call
C9_Witness ==
    /\ brand = "daikin"
    /\ calls > 1
    /\ LET pulses == Ret
       IN  /\ Len(pulses) = 571
           /\ pulses[132] = Space(DaikinProtocol.MESSAGE_SPACE)

(***************************************************************************)
(* TCL112 temperature encoding (C11).                                      *)
(***************************************************************************)
\* the target temperature of the last call clamped to [16, 31], in half
\* degrees
TCLClamped ==
    IF last.target_temp < 2 * 16 THEN 2 * 16
    ELSE IF last.target_temp > 2 * 31 THEN 2 * 31 ELSE last.target_temp

\* C11: in every TCL112 frame, byte 12 has bit 0x20 set exactly when the
\* target temperature clamped to [16, 31] has a half-degree fraction, and the
\* low nibble of byte 7 is 31 minus the integer part of the clamped
\* temperature.
C11_TCLHalfDegreeFlagAndNibble ==
    brand = "tcl" /\ out # NoOut =>
        LET f == SentBytes(Ret, 2, 14, 1100)
        IN  /\ (BitAnd(f[13], 32) = 32) <=> (TCLClamped % 2 = 1)
            /\ f[8] % 16 = 31 - (TCLClamped \div 2)

\* 23.5 C: the flag is set and the nibble is 8
C11_Witness ==
    /\ brand = "tcl" /\ out # NoOut
    /\ last.target_temp = 47
    /\ LET f == SentBytes(Ret, 2, 14, 1100)
       IN  BitAnd(f[13], 32) = 32 /\ f[8] % 16 = 8

(***************************************************************************)
(* Hitachi byte pairs (C12).                                               *)
(***************************************************************************)
\* C12: in every Hitachi frame, after any sequence of calls, frame[i] is the
\* bitwise complement of frame[i - 1] for i = 4, 6, ..., 42.
C12_HitachiBytePairsInverted ==
    brand = "hitachi" /\ out # NoOut =>
        LET f == SentBytes(Ret, 2, 43, 1250)
        IN  \A j \in 2..21 : f[2 * j + 1] = 255 - f[2 * j]

\* a second or later call, switching off: the power byte (index 27) is
\* POWER_OFF and the byte after it its complement
C12_Witness ==
    /\ brand = "hitachi" /\ calls > 1
    /\ LET f == SentBytes(Ret, 2, 43, 1250)
       IN  f[28] = 225 /\ f[29] = 30 /\ f = out.tx[1]

(***************************************************************************)
(* Registry resolution (C13, C14).                                         *)
(***************************************************************************)
\* C13: get_protocol(brand), called when an entity is set up, returns a newly
\* constructed facade when brand is registered and raises ValueError for
\* every identifier that is not, and no step changes the registry.
C13_GetProtocolResolvesOrRaises ==
    [][/\ registry' = registry
       /\ entity = NoEntity =>
             \A b \in {config'} :
                /\ b \in DOMAIN registry =>
                      /\ raised' = "none"
                      /\ entity' # NoEntity
                      /\ brand' = registry[b]
                      /\ self' = LG_init
                      /\ calls' = 0 /\ out' = NoOut
                /\ b \notin DOMAIN registry =>
                      /\ raised' = "ValueError"
                      /\ entity' = NoEntity
                      /\ brand' = "none"]_vars

\* the entity built for brand lg holds a facade nobody has called
C13_Witness ==
    /\ config = "lg" /\ raised = "none"
    /\ entity # NoEntity
    /\ ~entity.added
    /\ brand = "lg" /\ self = LG_init /\ calls = 0

\* C14: every brand identifier on offer, the 15 names of SUPPORTED_BRANDS and
\* the options of the wizard's brand step, resolves to a facade: setting up
\* the entity for it never raises the unsupported-brand ValueError.
C14_OfferedBrandsResolve ==
    config \in SUPPORTED_BRANDS \cup brand_list => raised # "ValueError"

(***************************************************************************)
(* Construction and encoding never raise (C15).                            *)
(***************************************************************************)
\* C15: for every brand class, the 14 brands and the generic NEC one,
\* constructing the facade succeeds, and every generate_ir_code call on it
\* returns a pulse sequence without raising.
C15_ConstructionAndEncodingNeverRaise ==
    /\ config # "none" => raised = "none" /\ brand = config
    /\ calls > 0 => out # NoOut /\ raised = "none"

(***************************************************************************)
(* The entity's calls of its facade (C16).                                 *)
(***************************************************************************)
\* the handlers that are inside generate_ir_code
InGenerate == {t \in Tasks : task[t].pc = "gen"}

\* C16: no two generate_ir_code invocations on the entity's facade are in
\* progress at once, and the facade attributes an invocation read are still
\* the facade's attributes until it has stored its own: no other command
\* observes or advances the toggle state in between.
C16_FacadeCallsSerialized ==
    /\ Cardinality(InGenerate) <= 1
    /\ \A t \in InGenerate : task[t].seen = <<self>>

\* one handler is inside generate_ir_code with swing on while another still
\* awaits the sending of its pulses
C16_Witness ==
    /\ task[1].pc = "gen"
    /\ task[2].pc = "send"
    /\ self.swing_active
    /\ entity.swing_mode = "off"

(***************************************************************************)
(* Unrecognised fan values (C18).                                          *)
(***************************************************************************)
\* C18: for every brand and model, from the same state before the call and
\* with the other fields equal, a command whose fan value the brand does not
\* recognise returns exactly the pulse sequence that fan = auto returns.
C18_UnknownFanEncodesAsAuto ==
    [][\A b \in {brand}, m \in {model}, before \in {self}, c \in {last'},
          returned \in {out'} :
          c.fan_mode \notin FanModes =>
              Pulses(b, m, returned)
                = Pulses(b, m, generate_ir_code(b, m, before,
                                                [c EXCEPT !.fan_mode = "auto"]).out)]_vars

(***************************************************************************)
(* Brands without swing (C19).                                             *)
(***************************************************************************)
\* C19: for the brands without swing capability (General/NEC, Whynter,
\* Yashima) the pulse sequence a call returns and the facade's attributes
\* after it are those of the same call with any other swing value.
C19_SwingIgnoredWithoutSwingCapability ==
    [][\A b \in {brand}, m \in {model}, before \in {self}, c \in {last'},
          after \in {self'}, returned \in {out'} :
          b \in {"general", "whynter", "yashima"} =>
              \A s \in {"off", "vertical", "horizontal", "both"} :
                 LET other == generate_ir_code(b, m, before,
                                               [c EXCEPT !.swing_mode = s])
                 IN  /\ Pulses(b, m, other.out) = Pulses(b, m, returned)
                     /\ other.self = after]_vars

\* a General call asking for vertical swing in cool mode at 24 C has
\* returned the frame 00 FF 81 7E
C19_Witness ==
    /\ brand = "general" /\ calls > 0
    /\ last = Cmd("cool", 48, "auto", "vertical")
    /\ SentBytes(Ret, 2, 4, 1690) = <<0, 255, 129, 126>>

(***************************************************************************)
(* Daikin checksum (C20).                                                  *)
(***************************************************************************)
\* the bytes of the third block of a Daikin pulse list: the block starts
\* after two blocks of header, 8 bytes, closing mark and message space, and
\* ends with one closing mark
DaikinThirdBlock(pulses) ==
    SentBytes(pulses, 2 * (2 + 16 * 8 + 2) + 2,
              (Len(pulses) - (2 * (2 + 16 * 8 + 2) + 2) - 1) \div 16, 1370)

\* C20: in every Daikin pulse sequence the third block starts with the
\* command header 0x11 0xDA 0x27 0x00 and its last byte is the sum mod 256
\* of all other bytes transmitted in that block.
C20_DaikinChecksumTransmitted ==
    brand = "daikin" /\ out # NoOut =>
        LET f == DaikinThirdBlock(Ret)
        IN  /\ SubSeq(f, 1, 4) = <<17, 218, 39, 0>>
            /\ TrailingSum(f)

(***************************************************************************)
(* Hitachi frame fields (C21).                                             *)
(***************************************************************************)
\* C21: in the 43-byte Hitachi frame of a call with a mode other than off,
\* bits 0-3 of byte 25 are the mode code (cool 3, heat 6, dry 5, fan_only 1,
\* auto and heat_cool 3), and for modes other than fan_only bits 2-7 of
\* byte 13 are the target temperature clamped to [16, 32].
C21_HitachiFrameCarriesCommand ==
    brand = "hitachi" /\ out # NoOut /\ last.hvac_mode # "off" =>
        LET f == SentBytes(Ret, 2, 43, 1250)
            code == CASE last.hvac_mode = "heat" -> 6
                      [] last.hvac_mode = "dry" -> 5
                      [] last.hvac_mode = "fan_only" -> 1
                      [] OTHER -> 3
        IN  /\ f[26] % 16 = code
            /\ last.hvac_mode # "fan_only" =>
                  f[14] \div 4 = Max2(16, Min2(32, last.target_temp \div 2))

(***************************************************************************)
(* LG power-on and mode-change codes (C22).                                *)
(***************************************************************************)
\* the power-on command code (bits 12-15) of an LG mode
LGOnCode(mode) ==
    CASE mode = "cool" -> 0 [] mode = "dry" -> 1 [] mode = "fan_only" -> 2
      [] mode = "heat_cool" -> 3 [] mode = "heat" -> 4

\* C22: a normal LG frame for cool, dry, fan_only, heat_cool or heat carries
\* the mode's power-on code in bits 12-15 exactly when the mode recorded by
\* the previous normal frame is off or no normal frame was encoded yet, and
\* the mode-change code (power-on code + 8) otherwise; a normal frame records
\* its mode and a swing-toggle frame leaves the recorded mode unchanged.
C22_LGPowerOnOrModeChangeCode ==
    [][\A before \in {self}, prev \in {last}, prevOut \in {out}, c \in {last'},
          o \in {out'}, after \in {self'} :
          brand = "lg" =>
            /\ prevOut = NoOut => before.mode_before = "off"
            /\ prevOut.kind = "normal" => before.mode_before = prev.hvac_mode
            /\ o.kind = "swing" => after.mode_before = before.mode_before
            /\ o.kind = "normal" =>
                 /\ after.mode_before = c.hvac_mode
                 /\ c.hvac_mode \in {"cool", "dry", "fan_only", "heat_cool", "heat"} =>
                      Nibble(o.tx[1], 3) =
                          IF before.mode_before = "off" THEN LGOnCode(c.hvac_mode)
                          ELSE LGOnCode(c.hvac_mode) + 8]_vars

\* a heat frame with the mode-change code 0xC, encoded after a swing toggle
\* that followed a normal frame
C22_Witness ==
    /\ brand = "lg" /\ calls > 1
    /\ out.kind = "normal" /\ last.hvac_mode = "heat"
    /\ self.swing_active
    /\ Nibble(out.tx[1], 3) = 12

(***************************************************************************)
(* Fujitsu power-on nibble (C23).                                          *)
(***************************************************************************)
\* C23: a Fujitsu state message has nibble 17 (the low half of byte 8) equal
\* to 1 exactly when no earlier call has been made or the most recent earlier
\* call was an off command, and 0 otherwise; every off command emits the
\* 7-byte OFF message and records the power state as off.
C23_FujitsuPowerOnNibble ==
    [][\A prev \in {last}, n \in {calls}, c \in {last'}, o \in {out'},
          after \in {self'} :
          brand = "fujitsu" =>
            LET pulses == Pulses("fujitsu", "", o)
                nbytes == (Len(pulses) - 4) \div 16
                f == SentBytes(pulses, 2, nbytes, 1200)
            IN  IF c.hvac_mode = "off"
                THEN /\ nbytes = 7
                     /\ f = <<20, 99, 0, 16, 16, 2, 253>>
                     /\ ~after.power_on
                ELSE /\ nbytes = 16
                     /\ f[6] = 254
                     /\ f[9] % 16 = IF n = 0 \/ prev.hvac_mode = "off" THEN 1 ELSE 0
                     /\ after.power_on]_vars

\* a second or later call: a state message for 24 C with the power-on nibble
\* set, returned by the call after an off command
C23_Witness ==
    /\ brand = "fujitsu" /\ calls > 1
    /\ out.kind = "state" /\ self.power_on
    /\ LET f == SentBytes(Ret, 2, 16, 1200)
       IN  f[9] % 16 = 1 /\ f[9] \div 16 = 8

(***************************************************************************)
(* Coolix off (C24).                                                       *)
(***************************************************************************)
\* C24: every Coolix call with hvac_mode = off returns the COOLIX_OFF
\* (0xB27BE0) frame, whatever the swing field of the command and whatever
\* the earlier calls left behind.
C24_CoolixOffEmitsOffFrame ==
    brand = "coolix" /\ out # NoOut /\ last.hvac_mode = "off" =>
        /\ out.tx[1] = 11697120
        /\ Ret = Coolix_encode_coolix_command(CoolixProtocol.COOLIX_OFF)

(***************************************************************************)
(* LG swing toggle parity (C25).                                           *)
(***************************************************************************)
\* the word is the LG swing-toggle frame (command nibble, bits 16-19, = 1)
LGSwingToggle(o) == Nibble(o.tx[1], 4) = 1

\* C25: over generate_ir_code calls alone, swing_active is the parity of the
\* number of swing-toggle frames emitted since the most recent off command or
\* since construction: it is false at construction and right after any off
\* command, a call that emits a toggle frame flips it and any other call with
\* mode other than off leaves it as it was; so a toggle frame is emitted
\* exactly by the calls with mode other than off in which swing_active
\* changes, and never by an off command.
C25_LGSwingActiveIsToggleParity ==
    [][\A before \in {self}, prevOut \in {out}, c \in {last'}, o \in {out'},
          after \in {self'} :
          brand = "lg" =>
            /\ prevOut = NoOut => ~before.swing_active
            /\ c.hvac_mode = "off" =>
                 ~after.swing_active /\ ~LGSwingToggle(o)
            /\ c.hvac_mode # "off" =>
                 /\ LGSwingToggle(o) <=> (after.swing_active # before.swing_active)
                 /\ LGSwingToggle(o) <=> (o.kind = "swing")]_vars

\* a second or later call has emitted the toggle frame 0x8810001 that turned
\* an active swing off again
C25_Witness ==
    /\ brand = "lg" /\ calls > 1
    /\ out.tx[1] = 142671873
    /\ last.swing_mode = "off" /\ last.hvac_mode = "cool"
    /\ ~self.swing_active

(***************************************************************************)
(* Whirlpool swing (C26).                                                  *)
(***************************************************************************)
\* the facade attributes that calls can lead to from the attributes in S
RECURSIVE WhirlpoolReachable(_, _)
WhirlpoolReachable(m, S) ==
    LET T == S \cup {Whirlpool_generate_ir_code(st, m, c).self :
                        st \in S, c \in WhirlpoolCommands(m)}
    IN  IF T = S THEN S ELSE WhirlpoolReachable(m, T)

\* the 21-byte frame has the swing bit set: bit 0x80 of byte 2 and bit 0x40
\* of byte 8
WhirlpoolSwingBit(frame) ==
    At(frame, 2) >= 128 /\ BitAnd(At(frame, 8), 64) = 64

\* C26: the vertical swing Whirlpool advertises is transmittable: starting
\* from a fresh facade there is a sequence of generate_ir_code calls after
\* which a command with swing = vertical yields a frame with the swing bit
\* set.
C26_WhirlpoolSwingTransmittable ==
    brand = "whirlpool" /\ calls = 0 =>
        \E st \in WhirlpoolReachable(model, {self}) :
           \E c \in WhirlpoolCommands(model) :
              /\ c.swing_mode = "vertical"
              /\ WhirlpoolSwingBit(Whirlpool_generate_ir_code(st, model, c).out.tx[1])

\* no frame a Whirlpool call returned has the swing bit set
WhirlpoolSwingNeverSent ==
    brand = "whirlpool" /\ out # NoOut => ~WhirlpoolSwingBit(out.tx[1])

(***************************************************************************)
(* Failure of a send (C27).                                                *)
(***************************************************************************)
\* C27: when the executor job that sends a command fails (no connection, a
\* result containing Error, any exception), the device handle is closed and
\* cleared when the job ends, and the handler that awaited it marks the
\* entity unavailable and raises HomeAssistantError to its caller; when the
\* command was sent, the handler marks the entity available.
C27_SendFailureClosesAndRaises ==
    [][\A t \in Tasks : \A before \in {task[t]}, after \in {task'[t]} :
          before.handler # "update" =>
            /\ before.pc = "job" /\ after.pc = "done" /\ after.result # "ok" =>
                 entity'.device = "none"
            /\ before.pc = "done" /\ after.pc = "idle" =>
                 IF before.result = "ok"
                 THEN entity'.available /\ raised' = "none"
                 ELSE ~entity'.available /\ raised' = "HomeAssistantError"]_vars

\* the device answered a send with an Error result: the handle is cleared
\* and the lock free again, while the handler, which has not yet resumed,
\* still shows the entity available from an earlier command
C27_Witness ==
    /\ entity # NoEntity
    /\ task[1].pc = "done" /\ task[1].result = "error_result"
    /\ task[1].handler = "hvac_mode"
    /\ entity.device = "none" /\ entity.lock = 0
    /\ entity.available
    /\ calls > 1

(***************************************************************************)
(* Removal of the entity (C28).                                            *)
(***************************************************************************)
\* C28: after async_will_remove_from_hass no sensor listener of the entity
\* remains registered and _device is None.
C28_RemovalUnsubscribesAndCloses ==
    entity # NoEntity /\ entity.removed =>
        entity.listeners = {} /\ entity.device = "none"

(***************************************************************************)
(* The lock around the device handle (C29).                                *)
(***************************************************************************)
\* C29: every access to the device handle happens while _lock is held.  A
\* step that works on the handle under the lock is the body of an executor
\* job, which ends by releasing the lock it held; so every step that changes
\* the handle, and the close on removal, releases the lock, and the entity
\* is never removed while a job holds the lock.
C29_DeviceAccessUnderLock ==
    [][\A e \in {entity}, f \in {entity'} :
          e # NoEntity /\ f # NoEntity =>
            /\ f.device # e.device => e.lock # 0 /\ f.lock = 0
            /\ f.removed /\ ~e.removed => e.lock # 0 /\ f.lock = 0]_vars

\* the handle is closed by the removal while an executor job holds the lock
ClosedDuringJob ==
    /\ entity # NoEntity
    /\ entity.removed /\ entity.lock # 0
    /\ task[entity.lock].pc = "job"

(***************************************************************************)
(* Order of delivery (C30).                                                *)
(***************************************************************************)
\* C30: the pulse sequences of commands issued without waiting for each
\* other reach the device in the order in which generate_ir_code produced
\* them: when a job has sent its pulses, no pulses generated before them are
\* still waiting to be sent.
C30_DeliveredInGenerationOrder ==
    [][\A t \in Tasks : \A before \in {task[t]}, after \in {task'[t]} :
          /\ before.handler # "update"
          /\ before.pc = "job" /\ after.pc = "done" /\ after.result = "ok"
          => before.after = {}]_vars

====
